---- MODULE Spec2Model ----
(***************************************************************************)
(* A model of the Granola MCP core: the enrichment cache parser            *)
(* (cache-parser.ts), the in-memory DocumentCache with its five indexes    *)
(* and its refresh (document-cache.ts), the search algorithm               *)
(* (document-search.ts) and the tool handlers of mcp-server.ts.            *)
(*                                                                         *)
(* JSON values are tagged records; each tag has its own field names, so    *)
(* two values of different JSON types are never compared field by field.   *)
(* A JavaScript string is a sequence of one-character strings, so that     *)
(* toLowerCase, includes and split are computed, not assumed.              *)
(***************************************************************************)
EXTENDS Integers, Sequences, FiniteSets, TLC

VARIABLES
    \* the disk and the clock
    syncDir,          \* the sync directory: whether readdir succeeds, and its listing
    metadataFiles,    \* metadata.json of each document directory
    transcriptFiles,  \* transcript.json of each document directory
    cacheFile,        \* the enrichment file (cache-v3.json)
    clockNow,         \* Date.now(), in hours
    zone,             \* the offset of the process's time zone, in hours
    \* the DocumentCache instance
    phase,            \* "constructed", then "ready" or "failed" by initialize()
    documentsById,
    metadataById,
    docOrder,         \* the insertion order of documentsById
    attendeeIndex,
    dateIndex,
    workspaceIndex,
    folderIndex,
    tokenIndex,
    granolaCache,
    \* the tool calls in flight
    refresh,          \* the refresh_cache calls, one record per caller
    search,           \* the search_meetings call
    \* history, read by the properties only
    initialIds,       \* the keys of documentsById when initialize() returned
    lastRequested,    \* the caller of the refresh_cache request made last
    searchSeen,       \* the states of the cache that existed during the search
    \* the parser on its own
    parseInput,       \* the enrichment file handed to parseCacheFile
    parseOutput,      \* what parseCacheFile returned for it
    \* the other tool calls of the server
    details,          \* the get_meeting_details call
    search2,          \* a second search_meetings call
    \* the command-line programs
    tokenMgr,         \* token-manager.ts: config.json and a getValidToken call
    sync,             \* main.ts: a sync run over the fetched documents
    extraction,       \* getTokensAutomatically and the Granola app
    script            \* list-workspaces.ts / list-folders.ts: a run of main()

diskVars == <<syncDir, metadataFiles, transcriptFiles, cacheFile, clockNow, zone>>
indexVars == <<dateIndex, workspaceIndex, folderIndex, tokenIndex>>
cacheVars == <<phase, documentsById, metadataById, docOrder, attendeeIndex,
               indexVars, granolaCache>>
callVars == <<refresh, search>>
historyVars == <<initialIds, lastRequested, searchSeen>>
parseVars == <<parseInput, parseOutput>>
toolVars == <<details, search2>>
programVars == <<tokenMgr, sync, extraction, script>>
sideVars == <<toolVars, programVars>>

vars == <<diskVars, cacheVars, callVars, historyVars, parseVars, sideVars>>

----------------------------------------------------------------------------
(* JSON values and the JavaScript operators the code applies to them *)

Undefined == [t |-> "undefined"]
JNull == [t |-> "null"]
JStr(chars) == [t |-> "string", s |-> chars]
\* a JSON string that holds an ISO-8601 date-time: d is its instant, in hours
JDate(hours) == [t |-> "isostring", d |-> hours]
JNum(n) == [t |-> "number", n |-> n]
JBool(b) == [t |-> "boolean", b |-> b]
JArr(items) == [t |-> "array", a |-> items]
\* an object is its key/value pairs in insertion order
JObj(pairs) == [t |-> "object", p |-> pairs]

\* JavaScript truthiness: undefined, null, "", 0 and false are falsy
Truthy(v) ==
    CASE v.t = "undefined" -> FALSE
      [] v.t = "null" -> FALSE
      [] v.t = "string" -> v.s # <<>>
      [] v.t = "number" -> v.n # 0
      [] v.t = "boolean" -> v.b
      [] OTHER -> TRUE

\* a || b
JsOr(a, b) == IF Truthy(a) THEN a ELSE b

IsString(v) == v.t \in {"string", "isostring"}

\* typeof v === 'object' (true of null, arrays and objects)
TypeofObject(v) == v.t \in {"null", "array", "object"}

IsArray(v) == v.t = "array"

\* v.key throws a TypeError exactly when v is null or undefined
PropThrows(v) == v.t \in {"null", "undefined"}

\* v.key when it does not throw: the value of an own key of an object, else undefined
Prop(v, key) ==
    IF v.t = "object" /\ \E i \in DOMAIN v.p : v.p[i][1] = key
    THEN v.p[CHOOSE i \in DOMAIN v.p : v.p[i][1] = key][2]
    ELSE Undefined

----------------------------------------------------------------------------
(* Files on disk *)

FileMissing == [k |-> "missing"]
FileUnreadable == [k |-> "unreadable"]
FileInvalid == [k |-> "invalid"]          \* text that JSON.parse rejects
FileJson(v) == [k |-> "json", v |-> v]    \* text that JSON.parse turns into v

----------------------------------------------------------------------------
(* cache-parser.ts *)

EmptyMap == << >>

\* Map.set(key, value)
MapSet(m, key, value) ==
    [x \in DOMAIN m \cup {key} |-> IF x = key THEN value ELSE m[x]]

\* one element of attendeesList after the filter, mapped to a CacheAttendee
CacheAttendee(attendee) ==
    [email |-> JsOr(Prop(attendee, "email"), Prop(attendee, "emailAddress")),
     displayName |-> JsOr(Prop(attendee, "displayName"),
                          JsOr(Prop(attendee, "name"), Prop(attendee, "full_name"))),
     organizer |-> JsOr(Prop(attendee, "organizer"),
                        JsOr(Prop(attendee, "isOrganizer"), JBool(FALSE))),
     responseStatus |-> JsOr(Prop(attendee, "responseStatus"), Prop(attendee, "status"))]

\* one element of entryPoints mapped to an entry point (the caller checks PropThrows)
EntryPoint(ep) ==
    [uri |-> JsOr(Prop(ep, "uri"), JsOr(Prop(ep, "url"), Prop(ep, "link"))),
     entryPointType |-> JsOr(Prop(ep, "entryPointType"), Prop(ep, "type"))]

\* extractMeetingInfo(entry, meetings): the map afterwards, and whether it threw
extractMeetingInfo(entry, meetings) ==
    IF ~Truthy(entry) \/ ~TypeofObject(entry)
    THEN [thrown |-> FALSE, meetings |-> meetings]
    ELSE
    LET id == JsOr(Prop(entry, "id"), JsOr(Prop(entry, "document_id"),
                   JsOr(Prop(entry, "documentId"), Prop(entry, "meeting_id"))))
        attendeesList == JsOr(Prop(entry, "attendees"),
                              JsOr(Prop(entry, "participants"), Prop(entry, "invitees")))
        attendees ==
            IF IsArray(attendeesList)
            THEN LET kept == SelectSeq(attendeesList.a,
                                       LAMBDA a : Truthy(a) /\ TypeofObject(a))
                 IN  JArr([i \in DOMAIN kept |-> CacheAttendee(kept[i])])
            ELSE Undefined
        confData == JsOr(Prop(entry, "conferenceData"),
                         JsOr(Prop(entry, "conference"), Prop(entry, "meetingInfo")))
        hasConf == Truthy(confData) /\ TypeofObject(confData)
        entryPoints == JsOr(Prop(confData, "entryPoints"),
                            JsOr(Prop(confData, "urls"), Prop(confData, "links")))
        mapsEntryPoints == hasConf /\ IsArray(entryPoints)
        epThrows == mapsEntryPoints /\ \E i \in DOMAIN entryPoints.a :
                                           PropThrows(entryPoints.a[i])
        conferenceData ==
            IF ~hasConf THEN Undefined
            ELSE IF mapsEntryPoints
                 THEN [t |-> "conference",
                       entryPoints |-> [i \in DOMAIN entryPoints.a |->
                                            EntryPoint(entryPoints.a[i])]]
                 ELSE [t |-> "conference", entryPoints |-> <<>>]
        meeting == [t |-> "meeting",
                    id |-> id,
                    attendees |-> attendees,
                    conferenceData |-> conferenceData,
                    calendarId |-> JsOr(Prop(entry, "calendarId"),
                                        Prop(entry, "calendar_id"))]
    IN  IF ~Truthy(id) THEN [thrown |-> FALSE, meetings |-> meetings]
        ELSE IF epThrows THEN [thrown |-> TRUE, meetings |-> meetings]
        ELSE [thrown |-> FALSE, meetings |-> MapSet(meetings, id, meeting)]

\* the for loops of parseCacheFile over the entries, left to right; a throw of
\* extractMeetingInfo leaves the loop (it is caught by the outer try)
RECURSIVE ExtractAll(_, _)
ExtractAll(entries, meetings) ==
    IF entries = <<>> THEN meetings
    ELSE LET r == extractMeetingInfo(Head(entries), meetings)
         IN  IF r.thrown THEN r.meetings
             ELSE ExtractAll(Tail(entries), r.meetings)

\* the values of an object in key order that pass `value && typeof value === 'object'`
ObjectEntries(obj) ==
    LET vals == [i \in DOMAIN obj.p |-> obj.p[i][2]]
    IN  SelectSeq(vals, LAMBDA v : Truthy(v) /\ TypeofObject(v))

\* parseCacheFile as a parser that answers a file it cannot read with a stock entry
parseCacheFileWithStock(file) ==
    IF file.k # "json"
    THEN JStr(<<"d", "1">>) :>
             [t |-> "meeting", id |-> JStr(<<"d", "1">>),
              attendees |-> JArr(<<[email |-> JStr(<<"a", "@", "b">>),
                                    displayName |-> Undefined,
                                    organizer |-> JBool(FALSE),
                                    responseStatus |-> Undefined]>>),
              conferenceData |-> Undefined, calendarId |-> Undefined]
    ELSE ExtractAll(file.v.a, EmptyMap)

\* parseCacheFile(cachePath): the returned Map; it never throws
parseCacheFile(file) ==
    IF file.k # "json" THEN EmptyMap
    ELSE LET cacheData == file.v IN
         IF ~(Truthy(cacheData) /\ TypeofObject(cacheData)) THEN EmptyMap
         ELSE LET meetingData ==
                      JsOr(Prop(cacheData, "meetings"),
                           JsOr(Prop(cacheData, "events"),
                                JsOr(Prop(cacheData, "documents"), cacheData)))
              IN  IF IsArray(meetingData) THEN ExtractAll(meetingData.a, EmptyMap)
                  ELSE IF TypeofObject(meetingData)
                       THEN ExtractAll(ObjectEntries(meetingData), EmptyMap)
                       ELSE EmptyMap

\* getMeetingFromCache(documentId, cache): cache.get(documentId) || null
getMeetingFromCache(documentId, cache) ==
    IF JStr(documentId) \in DOMAIN cache THEN cache[JStr(documentId)] ELSE JNull

----------------------------------------------------------------------------
(* Strings: toLowerCase, includes, and the tokenizer of document-cache.ts *)

UpperCase == <<"A","B","C","D","E","F","G","H","I","J","K","L","M",
               "N","O","P","Q","R","S","T","U","V","W","X","Y","Z">>
LowerCase == <<"a","b","c","d","e","f","g","h","i","j","k","l","m",
               "n","o","p","q","r","s","t","u","v","w","x","y","z">>
Digits == {"0","1","2","3","4","5","6","7","8","9"}

\* the characters \w matches
WordChars == {UpperCase[i] : i \in DOMAIN UpperCase}
             \cup {LowerCase[i] : i \in DOMAIN LowerCase} \cup Digits \cup {"_"}

LowerChar(c) ==
    IF \E i \in DOMAIN UpperCase : UpperCase[i] = c
    THEN LowerCase[CHOOSE i \in DOMAIN UpperCase : UpperCase[i] = c]
    ELSE c

\* String.prototype.toLowerCase
ToLowerCase(chars) == [i \in DOMAIN chars |-> LowerChar(chars[i])]

\* String.prototype.includes
Includes(hay, needle) ==
    \E i \in 0..(Len(hay) - Len(needle)) : SubSeq(hay, i + 1, i + Len(needle)) = needle

\* text.split(/[^\w]+/).filter(t => t.length > 0) on lowercased text: the maximal
\* runs of word characters, left to right (cur is the run being read)
RECURSIVE SplitWords(_, _)
SplitWords(chars, cur) ==
    IF chars = <<>> THEN (IF cur = <<>> THEN <<>> ELSE <<cur>>)
    ELSE IF Head(chars) \in WordChars
         THEN SplitWords(Tail(chars), Append(cur, Head(chars)))
         ELSE (IF cur = <<>> THEN <<>> ELSE <<cur>>) \o SplitWords(Tail(chars), <<>>)

\* DocumentCache.tokenize(text), for a text that is a string
tokenize(chars) == SplitWords(ToLowerCase(chars), <<>>)

\* the elements of a sequence, as a set
Range(seq) == {seq[i] : i \in DOMAIN seq}

----------------------------------------------------------------------------
(* Dates *)

\* new Date(v).getTime() for a value read from metadata: the instant of an ISO
\* string; NaN for any other string (NaN is modelled as -1, instants are >= 0)
NaN == -1
\* DateTime as a conversion that reads a string it cannot parse as the epoch
DateTimeOrEpoch(v) == IF v.t = "isostring" THEN v.d ELSE 0
DateTime(v) == IF v.t = "isostring" THEN v.d ELSE NaN

HoursPerDay == 24
\* date.toISOString().split('T')[0]: the UTC calendar day of an instant
IsoDay(hours) == hours \div HoursPerDay

----------------------------------------------------------------------------
(* document-cache.ts: loading and enrichment *)

\* meeting_metadata of a freshly created EnrichedDocument
EmptyAttachment == [attendees |-> <<>>, conference |-> Undefined, calendarId |-> Undefined]

\* cacheMeeting.attendees?.map(a => ({email, name, organizer, responseStatus})) || []
MapAttendees(cacheMeeting) ==
    IF cacheMeeting.attendees.t = "array"
    THEN [i \in DOMAIN cacheMeeting.attendees.a |->
              [email |-> cacheMeeting.attendees.a[i].email,
               name |-> cacheMeeting.attendees.a[i].displayName,
               organizer |-> cacheMeeting.attendees.a[i].organizer,
               responseStatus |-> cacheMeeting.attendees.a[i].responseStatus]]
    ELSE <<>>

\* Enrich as a block that empties the attachment of a document with no cache entry
EnrichOrReset(meeting_metadata, cacheMeeting) ==
    IF ~Truthy(cacheMeeting) THEN EmptyAttachment
    ELSE [attendees |-> MapAttendees(cacheMeeting),
          conference |-> meeting_metadata.conference,
          calendarId |-> cacheMeeting.calendarId]

\* the `if (cacheMeeting) { ... }` block that loadMetadata and refreshCache share:
\* the meeting_metadata of a document after it, given the one before it
Enrich(meeting_metadata, cacheMeeting) ==
    IF ~Truthy(cacheMeeting) THEN meeting_metadata
    ELSE [attendees |-> MapAttendees(cacheMeeting),
          conference |->
              IF cacheMeeting.conferenceData.t = "conference"
                 /\ Len(cacheMeeting.conferenceData.entryPoints) > 0
              THEN [t |-> "conference",
                    url |-> cacheMeeting.conferenceData.entryPoints[1].uri,
                    platform |-> cacheMeeting.conferenceData.entryPoints[1].entryPointType]
              ELSE meeting_metadata.conference,
          calendarId |-> cacheMeeting.calendarId]

\* the EnrichedDocument loadMetadata creates from a parsed metadata.json
NewDocument(docId, metadata, cache) ==
    [id |-> docId,
     title |-> Prop(metadata, "title"),
     created_at |-> Prop(metadata, "created_at"),
     updated_at |-> Prop(metadata, "updated_at"),
     workspace_id |-> Prop(metadata, "workspace_id"),
     meeting_metadata |-> Enrich(EmptyAttachment, getMeetingFromCache(docId, cache))]

\* the state loadMetadata works on: the two maps and the insertion order of documentsById
NoDocuments == [documentsById |-> EmptyMap, metadataById |-> EmptyMap, order |-> <<>>]

\* the body of loadMetadata's loop for one directory: a missing metadata.json is
\* skipped, a throw (file.json() on invalid JSON, metadata.title on null) is caught
\* after metadataById.set has or has not run
LoadOne(loaded, docId, file, cache) ==
    IF file.k # "json" THEN loaded
    ELSE LET metadata == file.v
             withMeta == MapSet(loaded.metadataById, docId, metadata)
         IN  IF PropThrows(metadata)
             THEN [loaded EXCEPT !.metadataById = withMeta]
             ELSE [documentsById |->
                       MapSet(loaded.documentsById, docId,
                              NewDocument(docId, metadata, cache)),
                   metadataById |-> withMeta,
                   order |-> IF docId \in DOMAIN loaded.documentsById
                             THEN loaded.order ELSE Append(loaded.order, docId)]

\* loadMetadata over the directories readdir listed, in listing order
RECURSIVE LoadAll(_, _, _, _)
LoadAll(loaded, entries, files, cache) ==
    IF entries = <<>> THEN loaded
    ELSE LoadAll(LoadOne(loaded, Head(entries), files[Head(entries)], cache),
                 Tail(entries), files, cache)

\* loadMetadata as a load that logs a failing readdir and returns normally
loadMetadataSwallowing(dir, files, cache) ==
    [thrown |-> FALSE,
     loaded |-> IF dir.ok THEN LoadAll(NoDocuments, dir.entries, files, cache)
                ELSE NoDocuments]

\* loadMetadata(): readdir failing is caught by the outer catch, which throws a new
\* Error before any document was read
loadMetadata(dir, files, cache) ==
    IF dir.ok
    THEN [thrown |-> FALSE, loaded |-> LoadAll(NoDocuments, dir.entries, files, cache)]
    ELSE [thrown |-> TRUE, loaded |-> NoDocuments]

----------------------------------------------------------------------------
(* document-cache.ts: the indexes *)

\* an index whose key keeps the document indexed last: index.set(key, new Set())
\* on every call
IndexPut(index, key, docId) ==
    [k \in DOMAIN index \cup {key} |-> IF k = key THEN {docId} ELSE index[k]]

\* index.get(key).add(docId), after index.set(key, new Set()) when the key is new
IndexAdd(index, key, docId) ==
    [k \in DOMAIN index \cup {key} |->
        IF k \in DOMAIN index
        THEN (IF k = key THEN index[k] \cup {docId} ELSE index[k])
        ELSE {docId}]

\* a loop that adds docId under one key per step; a step adds, skips or throws,
\* and a throw leaves the loop with what was added so far
RECURSIVE AddSteps(_, _, _)
AddSteps(index, steps, docId) ==
    IF steps = <<>> THEN [index |-> index, thrown |-> FALSE]
    ELSE CASE Head(steps).kind = "throw" -> [index |-> index, thrown |-> TRUE]
           [] Head(steps).kind = "skip" -> AddSteps(index, Tail(steps), docId)
           [] OTHER -> AddSteps(IndexAdd(index, Head(steps).key, docId),
                                Tail(steps), docId)

StepAdd(key) == [kind |-> "add", key |-> key]
StepSkip == [kind |-> "skip"]
StepThrow == [kind |-> "throw"]

\* `if (attendee.email) { email = attendee.email.toLowerCase(); ... }`
AttendeeSteps(attendees) ==
    [i \in DOMAIN attendees |->
        IF ~Truthy(attendees[i].email) THEN StepSkip
        ELSE IF attendees[i].email.t # "string" THEN StepThrow
        ELSE StepAdd(ToLowerCase(attendees[i].email.s))]

\* the attendee part of buildIndexes for one document, also the rebuild loop of
\* refreshCache
IndexAttendees(index, doc) ==
    AddSteps(index, AttendeeSteps(doc.meeting_metadata.attendees), doc.id)

\* `for (const folder of metadata.folders)`: the values the loop visits, or a throw
\* when folders is not iterable (an array and a string are)
FolderSteps(folders) ==
    CASE folders.t = "array" ->
            [i \in DOMAIN folders.a |->
                IF PropThrows(folders.a[i]) THEN StepThrow
                ELSE IF Prop(folders.a[i], "name").t # "string" THEN StepThrow
                ELSE StepAdd(ToLowerCase(Prop(folders.a[i], "name").s))]
      [] folders.t = "string" ->
            \* each character is a string, whose .name is undefined
            [i \in DOMAIN folders.s |-> StepThrow]
      [] OTHER -> <<StepThrow>>

\* tokenize(metadata.title) and the loop over its tokens
TokenSteps(title) ==
    IF title.t # "string" THEN <<StepThrow>>
    ELSE LET tokens == tokenize(title.s)
         IN  [i \in DOMAIN tokens |-> StepAdd(tokens[i])]

NoIndexes ==
    [attendeeIndex |-> EmptyMap, dateIndex |-> EmptyMap, workspaceIndex |-> EmptyMap,
     folderIndex |-> EmptyMap, tokenIndex |-> EmptyMap, thrown |-> FALSE]

\* the body of buildIndexes' loop for one document
IndexOne(ix, doc, metadata) ==
    IF ~Truthy(metadata) THEN ix
    ELSE
    LET att == IndexAttendees(ix.attendeeIndex, doc)
        dateStr == JsOr(Prop(metadata, "meeting_date"), Prop(metadata, "created_at"))
        date == IF Truthy(dateStr) /\ DateTime(dateStr) # NaN
                THEN IndexAdd(ix.dateIndex, IsoDay(DateTime(dateStr)), doc.id)
                ELSE ix.dateIndex
        workspace_id == Prop(metadata, "workspace_id")
        ws == IF Truthy(workspace_id)
              THEN IndexAdd(ix.workspaceIndex, workspace_id, doc.id)
              ELSE ix.workspaceIndex
        fol == AddSteps(ix.folderIndex, FolderSteps(Prop(metadata, "folders")), doc.id)
        tok == AddSteps(ix.tokenIndex, TokenSteps(Prop(metadata, "title")), doc.id)
    IN  IF att.thrown
        THEN [ix EXCEPT !.attendeeIndex = att.index, !.thrown = TRUE]
        ELSE IF fol.thrown
        THEN [ix EXCEPT !.attendeeIndex = att.index, !.dateIndex = date,
                        !.workspaceIndex = ws, !.folderIndex = fol.index,
                        !.thrown = TRUE]
        ELSE [attendeeIndex |-> att.index, dateIndex |-> date, workspaceIndex |-> ws,
              folderIndex |-> fol.index, tokenIndex |-> tok.index,
              thrown |-> tok.thrown]

\* buildIndexes(): the loop over documentsById in insertion order; a throw ends it
RECURSIVE BuildFrom(_, _, _)
BuildFrom(ix, order, loaded) ==
    IF order = <<>> \/ ix.thrown THEN ix
    ELSE BuildFrom(IndexOne(ix, loaded.documentsById[Head(order)],
                            loaded.metadataById[Head(order)]),
                   Tail(order), loaded)

buildIndexes(ix, loaded) == BuildFrom(ix, loaded.order, loaded)

----------------------------------------------------------------------------
(* document-cache.ts: refreshCache and the lookups *)

\* ReEnrichAll as a refresh that builds each document anew from its cache entry
ReEnrichAllAnew(docs, cache) ==
    [d \in DOMAIN docs |->
        [docs[d] EXCEPT !.title = Undefined, !.workspace_id = Undefined,
                        !.meeting_metadata = Enrich(@, getMeetingFromCache(d, cache))]]

\* ReEnrichAll as a refresh that also takes up the directories now on disk
ReEnrichAllRescanning(docs, cache) ==
    [d \in DOMAIN docs \cup Range(syncDir.entries) |->
        IF d \in DOMAIN docs
        THEN [docs[d] EXCEPT !.meeting_metadata =
                                 Enrich(@, getMeetingFromCache(d, cache))]
        ELSE NewDocument(d, metadataFiles[d].v, cache)]

\* the first loop of refreshCache: every loaded document re-enriched from the
\* freshly parsed cache (the keys of documentsById are not touched)
ReEnrichAll(docs, cache) ==
    [d \in DOMAIN docs |->
        [docs[d] EXCEPT !.meeting_metadata = Enrich(@, getMeetingFromCache(d, cache))]]

\* the second loop of refreshCache, after attendeeIndex.clear(): the attendee index
\* rebuilt over documentsById in insertion order; a throw ends it
RECURSIVE RebuildFrom(_, _, _)
RebuildFrom(acc, order, docs) ==
    IF order = <<>> \/ acc.thrown THEN acc
    ELSE RebuildFrom(IndexAttendees(acc.index, docs[Head(order)]), Tail(order), docs)

RebuildAttendeeIndex(order, docs) ==
    RebuildFrom([index |-> EmptyMap, thrown |-> FALSE], order, docs)

\* the getter `stats`
Stats(docs, attendees) ==
    [totalDocuments |-> Cardinality(DOMAIN docs),
     documentsWithAttendees |->
         Cardinality({d \in DOMAIN docs : Len(docs[d].meeting_metadata.attendees) > 0}),
     uniqueAttendees |-> Cardinality(DOMAIN attendees)]

\* the union of the sets of an index whose key passes a test
UnionWhere(index, Test(_)) == UNION {index[k] : k \in {x \in DOMAIN index : Test(x)}}

\* getDocumentsByAttendee(emailPattern)
getDocumentsByAttendee(index, emailPattern) ==
    UnionWhere(index, LAMBDA email : Includes(email, ToLowerCase(emailPattern)))

\* getDocumentsByFolder(folderNamePattern)
getDocumentsByFolder(index, folderNamePattern) ==
    UnionWhere(index, LAMBDA name : Includes(name, ToLowerCase(folderNamePattern)))

\* getDocumentsByWorkspace(workspaceId)
getDocumentsByWorkspace(index, workspaceId) ==
    IF workspaceId \in DOMAIN index THEN index[workspaceId] ELSE {}

\* getDocumentsByTitle(query): the union of the token sets of the query's tokens
getDocumentsByTitle(index, query) ==
    LET tokens == Range(tokenize(query))
    IN  UNION {index[k] : k \in DOMAIN index \cap tokens}

\* getDocumentsByDateRange(start, end): a bound is an instant or null; the scan
\* reads metadata.meeting_date of every entry of metadataById, which throws on null
DateRangeThrows(metas) == \E d \in DOMAIN metas : PropThrows(metas[d])

NoBound == [t |-> "null"]
Bound(hours) == [t |-> "date", at |-> hours]

getDocumentsByDateRange(metas, start, end) ==
    {d \in DOMAIN metas :
        LET dateStr == JsOr(Prop(metas[d], "meeting_date"),
                            Prop(metas[d], "created_at"))
            date == DateTime(dateStr)
        IN  /\ Truthy(dateStr)
            /\ date # NaN
            /\ ~(start.t = "date" /\ date < start.at)
            /\ ~(end.t = "date" /\ date > end.at)}

----------------------------------------------------------------------------
(* date-parser.ts: the expressions the searches of this model use *)

\* a Date's local wall clock is its instant shifted by the zone's offset (hours)
\* date.setHours(0, 0, 0, 0): the first hour of the local calendar day
startOfDay(hours, tz) == ((hours + tz) \div HoursPerDay) * HoursPerDay - tz

\* date.setHours(23, 59, 59, 999): the last hour of the local calendar day
endOfDay(hours, tz) == startOfDay(hours, tz) + (HoursPerDay - 1)

\* addDays(date, days), away from daylight-saving changes
addDays(hours, days) == hours + days * HoursPerDay

RECURSIVE TrimLeft(_)
TrimLeft(chars) ==
    IF chars # <<>> /\ Head(chars) = " " THEN TrimLeft(Tail(chars)) ELSE chars

RECURSIVE TrimRight(_)
TrimRight(chars) ==
    IF chars # <<>> /\ chars[Len(chars)] = " "
    THEN TrimRight(SubSeq(chars, 1, Len(chars) - 1)) ELSE chars

\* String.prototype.trim
Trim(chars) == TrimRight(TrimLeft(chars))

WordToday == <<"t","o","d","a","y">>
WordYesterday == <<"y","e","s","t","e","r","d","a","y">>
WordLastWeek == <<"l","a","s","t"," ","w","e","e","k">>

\* parseRelativeDate(input): the Date, or thrown. An ISO-8601 input is parsed
\* literally; of the relative forms the model holds today, yesterday and last week
parseRelativeDate(input, now, tz) ==
    IF ~Truthy(input) \/ ~IsString(input) THEN [thrown |-> TRUE]
    ELSE IF input.t = "isostring" THEN [thrown |-> FALSE, at |-> input.d]
    ELSE LET lowerInput == Trim(ToLowerCase(input.s)) IN
         CASE lowerInput = WordToday ->
                 [thrown |-> FALSE, at |-> startOfDay(now, tz)]
           [] lowerInput = WordYesterday ->
                 [thrown |-> FALSE, at |-> startOfDay(addDays(now, -1), tz)]
           [] lowerInput = WordLastWeek ->
                 [thrown |-> FALSE, at |-> startOfDay(addDays(now, -7), tz)]
           [] OTHER -> [thrown |-> TRUE]

\* a resolution with both sides in one try/catch: a start that cannot be parsed
\* leaves the end unresolved too
parseDateRangeTogether(startDate, endDate, now, tz) ==
    LET s == IF Truthy(startDate) THEN parseRelativeDate(startDate, now, tz)
             ELSE [thrown |-> FALSE]
        e == IF Truthy(endDate) THEN parseRelativeDate(endDate, now, tz)
             ELSE [thrown |-> TRUE]
    IN  [start |-> IF s.thrown \/ ~Truthy(startDate) THEN NoBound ELSE Bound(s.at),
         end |-> IF s.thrown \/ e.thrown THEN NoBound ELSE Bound(endOfDay(e.at, tz))]

\* parseDateRange(startDate, endDate): each side in its own try/catch; the end is
\* moved to the end of its local day
parseDateRange(startDate, endDate, now, tz) ==
    LET s == IF Truthy(startDate) THEN parseRelativeDate(startDate, now, tz)
             ELSE [thrown |-> TRUE]
        e == IF Truthy(endDate) THEN parseRelativeDate(endDate, now, tz)
             ELSE [thrown |-> TRUE]
    IN  [start |-> IF s.thrown THEN NoBound ELSE Bound(s.at),
         end |-> IF e.thrown THEN NoBound ELSE Bound(endOfDay(e.at, tz))]

----------------------------------------------------------------------------
(* document-search.ts *)

\* scores are kept in units of 1/336 point, the common denominator of 0.5 per
\* folder and of the recency decay of 1/168 point per hour (1/7 point per day)
UnitsPerPoint == 336
TitlePoints == 10
RecencyPoints == 5
TranscriptPoints == 5
DefaultLimit == 10

\* an intersection that gives up a filter no candidate passes
intersectIfAny(seqA, setB) ==
    LET kept == SelectSeq(seqA, LAMBDA item : item \in setB)
    IN  IF kept = <<>> THEN seqA ELSE kept

\* intersect(setA, setB): the items of setA, in setA's order, that setB has
intersect(seqA, setB) == SelectSeq(seqA, LAMBDA item : item \in setB)

\* a search that has not been started
IdleSearch ==
    [pc |-> "idle", params |-> << >>, candidateIds |-> <<>>, contentMatchIds |-> {},
     i |-> 0, pre |-> 0, scoredDocs |-> <<>>, topDocs |-> <<>>, j |-> 0,
     pending |-> << >>, matches |-> <<>>, total_matches |-> 0]

\* the state the cache shows a search: the maps and the indexes
CacheView(docs, meta, order, attendees, workspaces, folders, tokens) ==
    [documentsById |-> docs, metadataById |-> meta, order |-> order,
     attendeeIndex |-> attendees, workspaceIndex |-> workspaces,
     folderIndex |-> folders, tokenIndex |-> tokens]

\* the attendee and the date filter of searchDocuments, on the candidate ids
CandidatesByDate(c, params, now, tz) ==
    LET all == c.order
        a == IF Truthy(params.attendee_email)
             THEN intersect(all, getDocumentsByAttendee(c.attendeeIndex,
                                                        params.attendee_email.s))
             ELSE all
        range == parseDateRange(params.start_date, params.end_date, now, tz)
    IN  IF Truthy(params.start_date) \/ Truthy(params.end_date)
        THEN intersect(a, getDocumentsByDateRange(c.metadataById,
                                                  range.start, range.end))
        ELSE a

\* an intersection that works in place: it removes from setB what setA lacks
RetainedAfterIntersect(seqA, setB) == setB \cap Range(seqA)

\* what intersect(setA, setB) leaves in setB: it only calls setB.has
SetBAfterIntersect(seqA, setB) == setB

\* the workspace index after the filters of searchDocuments: the Set that
\* getDocumentsByWorkspace returns is the index's own Set for the workspace, not a
\* copy, and it is handed to intersect as setB
WorkspaceIndexAfterSearch(c, params, now, tz) ==
    IF Truthy(params.workspace_id) /\ params.workspace_id \in DOMAIN c.workspaceIndex
    THEN [c.workspaceIndex EXCEPT ![params.workspace_id] =
              SetBAfterIntersect(CandidatesByDate(c, params, now, tz), @)]
    ELSE c.workspaceIndex

\* the filters of searchDocuments, in the code's order, on the candidate ids
Candidates(c, params, now, tz) ==
    LET b == CandidatesByDate(c, params, now, tz)
        w == IF Truthy(params.workspace_id)
             THEN intersect(b, getDocumentsByWorkspace(c.workspaceIndex,
                                                       params.workspace_id))
             ELSE b
    IN  IF Truthy(params.folder_name)
        THEN intersect(w, getDocumentsByFolder(c.folderIndex, params.folder_name.s))
        ELSE w

\* whether the filters throw: only the date scan can
CandidatesThrow(c, params) ==
    /\ Truthy(params.start_date) \/ Truthy(params.end_date)
    /\ DateRangeThrows(c.metadataById)

\* metadata.folders.length for the folders a loaded document can have
FoldersLength(folders) ==
    CASE folders.t = "array" -> Len(folders.a)
      [] folders.t = "string" -> Len(folders.s)
      [] OTHER -> 0

\* a recency that decays with the distance from now, before it or after it
RecencyByDistance(date, now) ==
    LET distance == IF now >= date THEN now - date ELSE date - now
        r == RecencyPoints * UnitsPerPoint - 2 * distance
    IN  IF r > 0 THEN r ELSE 0

\* Math.max(0, 5 - daysAgo / 7), in units
Recency(date, now) ==
    LET r == RecencyPoints * UnitsPerPoint - 2 * (now - date)
    IN  IF r > 0 THEN r ELSE 0

\* calculateRelevance up to its `await cache.getTranscript`: title, recency,
\* folders and attendees
ScoreBeforeTranscript(doc, metadata, contentQuery, titleMatches, now) ==
    LET meetingDate == JsOr(Prop(metadata, "meeting_date"), Prop(metadata, "created_at"))
    IN  (IF Truthy(contentQuery) /\ titleMatches THEN TitlePoints * UnitsPerPoint ELSE 0)
        + (IF Truthy(meetingDate) /\ DateTime(meetingDate) # NaN
           THEN Recency(DateTime(meetingDate), now) ELSE 0)
        + FoldersLength(Prop(metadata, "folders")) * (UnitsPerPoint \div 2)
        + (IF Len(doc.meeting_metadata.attendees) > 0 THEN UnitsPerPoint ELSE 0)

\* transcript.map(u => u.text).join(" ").toLowerCase(), for utterances whose text
\* is a string
RECURSIVE JoinTexts(_)
JoinTexts(utterances) ==
    IF utterances = <<>> THEN <<>>
    ELSE LET text == Prop(Head(utterances), "text")
             chars == IF text.t = "string" THEN text.s ELSE <<>>
         IN  IF Len(utterances) = 1 THEN chars
             ELSE chars \o <<" ">> \o JoinTexts(Tail(utterances))

\* getTranscript(docId): the parsed transcript.json, or null when the file is
\* missing or cannot be read as JSON
getTranscript(file) == IF file.k = "json" THEN file.v ELSE JNull

\* the rest of calculateRelevance: the points the transcript adds
TranscriptScore(transcript, contentQuery) ==
    IF transcript.t = "array" /\ Len(transcript.a) > 0
       /\ Includes(ToLowerCase(JoinTexts(transcript.a)), ToLowerCase(contentQuery.s))
    THEN TranscriptPoints * UnitsPerPoint
    ELSE 0

\* scoredDocs.sort((a, b) => b.score - a.score): a stable sort, highest score first
RECURSIVE InsertByScore(_, _)
InsertByScore(sorted, item) ==
    IF sorted = <<>> THEN <<item>>
    ELSE IF Head(sorted).score >= item.score
         THEN <<Head(sorted)>> \o InsertByScore(Tail(sorted), item)
         ELSE <<item>> \o sorted

\* a sort that leaves the scored documents in the order they were scored in
SortByArrival(scored) == scored

RECURSIVE SortByScore(_)
SortByScore(scored) ==
    IF scored = <<>> THEN <<>>
    ELSE InsertByScore(SortByScore(SubSeq(scored, 1, Len(scored) - 1)),
                       scored[Len(scored)])

\* scoredDocs.slice(0, limit), limit = 10 by default: Array.prototype.slice counts
\* a negative end from the end of the array
TopDocs(scored, limit) ==
    LET n == IF limit.t = "number" THEN limit.n ELSE DefaultLimit
        end == IF n < 0
               THEN (IF Len(scored) + n > 0 THEN Len(scored) + n ELSE 0)
               ELSE (IF n < Len(scored) THEN n ELSE Len(scored))
    IN  SubSeq(scored, 1, end)

\* the SearchMatch built for one kept document, before its snippet is read
Match(doc, metadata, docId, score) ==
    [document_id |-> docId,
     title |-> Prop(metadata, "title"),
     meeting_date |-> JsOr(Prop(metadata, "meeting_date"), Prop(metadata, "created_at")),
     workspace_name |-> Prop(metadata, "workspace_name"),
     folders |-> LET folders == Prop(metadata, "folders")
                 IN  IF folders.t = "array"
                     THEN [i \in DOMAIN folders.a |-> Prop(folders.a[i], "name")]
                     ELSE <<>>,
     attendees |-> doc.meeting_metadata.attendees,
     relevance_score |-> score]

\* the formatting loop from its j-th kept document on, up to the next
\* `await cache.getResumeMarkdown` or to the return
FormatFrom(s, c) ==
    IF s.j > Len(s.topDocs)
    THEN [s EXCEPT !.pc = "done", !.total_matches = Len(s.scoredDocs)]
    ELSE LET docId == s.topDocs[s.j].docId
         IN  [s EXCEPT !.pc = "notes",
                       !.pending = Match(c.documentsById[docId], c.metadataById[docId],
                                         docId, s.topDocs[s.j].score)]

\* the scoring loop from its i-th candidate on, up to the next
\* `await cache.getTranscript`; when the loop ends, the sort, the slice and the
\* start of the formatting loop
RECURSIVE ScoreFrom(_, _, _)
ScoreFrom(s, c, now) ==
    IF s.i > Len(s.candidateIds)
    THEN LET sorted == SortByScore(s.scoredDocs)
         IN  FormatFrom([s EXCEPT !.scoredDocs = sorted,
                                  !.topDocs = TopDocs(sorted, s.params.limit),
                                  !.j = 1], c)
    ELSE LET docId == s.candidateIds[s.i]
             doc == c.documentsById[docId]
             metadata == c.metadataById[docId]
         IN  IF ~Truthy(metadata) THEN ScoreFrom([s EXCEPT !.i = s.i + 1], c, now)
             ELSE LET pre == ScoreBeforeTranscript(doc, metadata, s.params.content_query,
                                                   docId \in s.contentMatchIds, now)
                  IN  IF Truthy(s.params.content_query)
                      THEN [s EXCEPT !.pc = "transcript", !.pre = pre]
                      ELSE ScoreFrom([s EXCEPT !.i = s.i + 1,
                                               !.scoredDocs = Append(@, [docId |-> docId,
                                                                         score |-> pre])],
                                     c, now)

\* searchDocuments from its call to its first suspension
StartSearch(params, c, now, tz) ==
    IF CandidatesThrow(c, params) THEN [IdleSearch EXCEPT !.pc = "error", !.params = params]
    ELSE ScoreFrom([IdleSearch EXCEPT
                       !.params = params,
                       !.candidateIds = Candidates(c, params, now, tz),
                       !.contentMatchIds =
                           IF Truthy(params.content_query)
                           THEN getDocumentsByTitle(c.tokenIndex, params.content_query.s)
                           ELSE {},
                       !.i = 1], c, now)

\* searchDocuments resumed with the transcript of its i-th candidate: the score is
\* completed, a document scoring 0 under a content query is left out
ResumeTranscript(s, c, file, now) ==
    LET score == s.pre + TranscriptScore(getTranscript(file), s.params.content_query)
        docId == s.candidateIds[s.i]
    IN  ScoreFrom([s EXCEPT !.pc = "scoring", !.i = s.i + 1, !.pre = 0,
                            !.scoredDocs = IF score = 0 THEN @
                                           ELSE Append(@, [docId |-> docId,
                                                           score |-> score])],
                  c, now)

\* searchDocuments resumed with the notes of its j-th kept document
ResumeNotes(s, c) ==
    FormatFrom([s EXCEPT !.j = s.j + 1, !.pending = << >>,
                         !.matches = Append(@, s.pending)], c)

\* the search run with no other operation in between, on one state of the cache
RECURSIVE RunSearch(_, _, _, _)
RunSearch(s, c, files, now) ==
    CASE s.pc = "transcript" ->
            RunSearch(ResumeTranscript(s, c, files[s.candidateIds[s.i]], now),
                      c, files, now)
      [] s.pc = "notes" -> RunSearch(ResumeNotes(s, c), c, files, now)
      [] OTHER -> s

----------------------------------------------------------------------------
(* mcp-server.ts: what the tool handlers answer *)

\* the refresh_cache handler: refreshCache() awaited, then the stats; a throw of
\* refreshCache is caught by the handler and answered with isError
RefreshCacheResponse(thrown, stats) ==
    IF thrown THEN [isError |-> TRUE, success |-> FALSE, stats |-> << >>]
    ELSE [isError |-> FALSE, success |-> TRUE, stats |-> stats]

----------------------------------------------------------------------------
(* The operations *)

\* the state of the cache a search reads
View == CacheView(documentsById, metadataById, docOrder, attendeeIndex,
                  workspaceIndex, folderIndex, tokenIndex)

\* what a refresh can change
Snapshot == [documentsById |-> documentsById, attendeeIndex |-> attendeeIndex]

\* history: no attendee in memory has an email that is neither empty nor a string
StringEmails(docs) ==
    \A d \in DOMAIN docs : \A i \in DOMAIN docs[d].meeting_metadata.attendees :
        LET email == docs[d].meeting_metadata.attendees[i].email
        IN  Truthy(email) => email.t = "string"

IdleRefresh ==
    [pc |-> "idle", parsed |-> EmptyMap, readFailed |-> FALSE, unchanged |-> FALSE,
     stringEmails |-> FALSE, response |-> << >>]

\* main() of mcp-server.ts up to server.connect: new DocumentCache(...), then
\* initialize(): parseCacheFile, loadMetadata, buildIndexes. readdir failing makes
\* loadMetadata throw; a throw of buildIndexes leaves initialize() the same way
Initialize ==
    /\ phase = "constructed"
    /\ \E cache \in {parseCacheFile(cacheFile)} :
       \E load \in {loadMetadata(syncDir, metadataFiles, cache)} :
       \E ix \in {IF load.thrown THEN NoIndexes
                  ELSE buildIndexes(NoIndexes, load.loaded)} :
       LET loaded == load.loaded
       IN  /\ granolaCache' = cache
           /\ documentsById' = loaded.documentsById
           /\ metadataById' = loaded.metadataById
           /\ docOrder' = loaded.order
           /\ attendeeIndex' = ix.attendeeIndex
           /\ dateIndex' = ix.dateIndex
           /\ workspaceIndex' = ix.workspaceIndex
           /\ folderIndex' = ix.folderIndex
           /\ tokenIndex' = ix.tokenIndex
           /\ phase' = IF ~load.thrown /\ ~ix.thrown THEN "ready" ELSE "failed"
           /\ initialIds' = DOMAIN loaded.documentsById
    /\ UNCHANGED <<diskVars, callVars, lastRequested, searchSeen, parseVars, sideVars>>

\* a refresh_cache request arrives: the handler calls refreshCache(), which calls
\* parseCacheFile and waits for the file
RefreshRequest(p) ==
    /\ phase = "ready"
    /\ refresh[p].pc \in {"idle", "done"}
    /\ refresh' = [refresh EXCEPT ![p] = [IdleRefresh EXCEPT !.pc = "reading"]]
    /\ lastRequested' = p
    /\ UNCHANGED <<diskVars, cacheVars, search, initialIds, searchSeen, parseVars, sideVars>>

\* the file is read for caller p and parsed; the call resumes in RefreshApply, when
\* the runtime delivers the completion of the read
RefreshRead(p) ==
    /\ refresh[p].pc = "reading"
    /\ refresh' = [refresh EXCEPT ![p].pc = "parsed",
                                  ![p].parsed = parseCacheFile(cacheFile),
                                  ![p].readFailed = (cacheFile.k # "json")]
    /\ UNCHANGED <<diskVars, cacheVars, search, historyVars, parseVars, sideVars>>

\* refreshCache() resumes for caller p: granolaCache is assigned, the documents are
\* re-enriched, the attendee index is cleared and rebuilt, and the handler answers
RefreshApply(p) ==
    /\ refresh[p].pc = "parsed"
    /\ LET docs == ReEnrichAll(documentsById, refresh[p].parsed)
           rebuilt == RebuildAttendeeIndex(docOrder, docs)
       IN  /\ granolaCache' = refresh[p].parsed
           /\ documentsById' = docs
           /\ attendeeIndex' = rebuilt.index
           /\ refresh' = [refresh EXCEPT
                  ![p].pc = "done",
                  ![p].unchanged = (docs = documentsById
                                    /\ rebuilt.index = attendeeIndex),
                  ![p].stringEmails = StringEmails(documentsById),
                  ![p].response = RefreshCacheResponse(rebuilt.thrown,
                                                       Stats(docs, rebuilt.index))]
           /\ searchSeen' = IF search.pc \in {"transcript", "notes"}
                            THEN searchSeen \cup {[documentsById |-> docs,
                                                   attendeeIndex |-> rebuilt.index]}
                            ELSE searchSeen
    /\ UNCHANGED <<diskVars, phase, metadataById, docOrder, indexVars, search,
                   initialIds, lastRequested, parseVars, sideVars>>

\* a search_meetings request arrives and runs to its first file read
SearchRequest(params) ==
    /\ phase = "ready"
    /\ search.pc \in {"idle", "done", "error"}
    /\ search' = StartSearch(params, View, clockNow, zone)
    /\ workspaceIndex' = IF CandidatesThrow(View, params) THEN workspaceIndex
                         ELSE WorkspaceIndexAfterSearch(View, params, clockNow, zone)
    /\ searchSeen' = {Snapshot}
    /\ UNCHANGED <<diskVars, phase, documentsById, metadataById, docOrder,
                   attendeeIndex, dateIndex, folderIndex, tokenIndex, granolaCache,
                   refresh, initialIds, lastRequested, parseVars, sideVars>>

\* a second search_meetings request arrives while the first may be waiting
Search2Request(params) ==
    /\ phase = "ready"
    /\ search2.pc \in {"idle", "done", "error"}
    /\ search2' = StartSearch(params, View, clockNow, zone)
    /\ workspaceIndex' = IF CandidatesThrow(View, params) THEN workspaceIndex
                         ELSE WorkspaceIndexAfterSearch(View, params, clockNow, zone)
    /\ UNCHANGED <<diskVars, phase, documentsById, metadataById, docOrder,
                   attendeeIndex, dateIndex, folderIndex, tokenIndex, granolaCache,
                   callVars, historyVars, parseVars, details, programVars>>

\* the transcript the second search waits for is read
Search2TranscriptRead ==
    /\ search2.pc = "transcript"
    /\ search2' = ResumeTranscript(search2, View,
                                   transcriptFiles[search2.candidateIds[search2.i]],
                                   clockNow)
    /\ UNCHANGED <<diskVars, cacheVars, callVars, historyVars, parseVars, details,
                   programVars>>

\* the notes the second search waits for are read
Search2NotesRead ==
    /\ search2.pc = "notes"
    /\ search2' = ResumeNotes(search2, View)
    /\ UNCHANGED <<diskVars, cacheVars, callVars, historyVars, parseVars, details,
                   programVars>>

\* the transcript of the candidate being scored is read and the search goes on
SearchTranscriptRead ==
    /\ search.pc = "transcript"
    /\ search' = ResumeTranscript(search, View,
                                  transcriptFiles[search.candidateIds[search.i]], clockNow)
    /\ UNCHANGED <<diskVars, cacheVars, refresh, historyVars, parseVars, sideVars>>

\* the notes of the match being formatted are read and the search goes on
SearchNotesRead ==
    /\ search.pc = "notes"
    /\ search' = ResumeNotes(search, View)
    /\ UNCHANGED <<diskVars, cacheVars, refresh, historyVars, parseVars, sideVars>>

\* Granola rewrites its cache file
WriteCacheFile(file) ==
    /\ cacheFile # file
    /\ cacheFile' = file
    /\ UNCHANGED <<syncDir, metadataFiles, transcriptFiles, clockNow, zone, cacheVars,
                   callVars, historyVars, parseVars, sideVars>>

\* a sync adds a document directory to the sync directory
AddDirectory(docId) ==
    /\ syncDir.ok
    /\ docId \notin Range(syncDir.entries)
    /\ syncDir' = [syncDir EXCEPT !.entries = Append(@, docId)]
    /\ UNCHANGED <<metadataFiles, transcriptFiles, cacheFile, clockNow, zone, cacheVars,
                   callVars, historyVars, parseVars, sideVars>>

\* a document directory is removed from the sync directory
RemoveDirectory(docId) ==
    /\ syncDir.ok
    /\ docId \in Range(syncDir.entries)
    /\ syncDir' = [syncDir EXCEPT !.entries = SelectSeq(@, LAMBDA d : d # docId)]
    /\ UNCHANGED <<metadataFiles, transcriptFiles, cacheFile, clockNow, zone, cacheVars,
                   callVars, historyVars, parseVars, sideVars>>

\* parseCacheFile called on its own
ParseFile ==
    /\ parseOutput = << >>
    /\ parseInput.k # "none"
    /\ parseOutput' = <<parseCacheFile(parseInput)>>
    /\ UNCHANGED <<diskVars, cacheVars, callVars, historyVars, parseInput, sideVars>>

----------------------------------------------------------------------------
(* The get_meeting_details tool and the direct lookups *)

\* a lookup that answers an unknown id with some loaded document
getDocumentOrAny(docs, docId) ==
    IF docId \in DOMAIN docs THEN docs[docId]
    ELSE IF DOMAIN docs = {} THEN Undefined
    ELSE docs[CHOOSE d \in DOMAIN docs : TRUE]

\* getDocument(docId): Map.get gives undefined for a key the map does not have
getDocument(docs, docId) == IF docId \in DOMAIN docs THEN docs[docId] ELSE Undefined

\* getMetadata(docId)
getMetadata(metas, docId) == IF docId \in DOMAIN metas THEN metas[docId] ELSE Undefined

\* `!doc || !metadata`
NotFound(doc, metadata) == doc = Undefined \/ ~Truthy(metadata)

\* the answer of get_meeting_details for an id it does not find
MeetingNotFound(docId) ==
    [isError |-> TRUE, error |-> "Meeting not found", document_id |-> docId]

\* the answer of get_meeting_details for a meeting, with its notes
MeetingDetails(doc, metadata, resume) ==
    [isError |-> FALSE,
     document_id |-> doc.id,
     title |-> Prop(metadata, "title"),
     attendees |-> doc.meeting_metadata.attendees,
     notes |-> IF Truthy(resume) THEN resume ELSE JStr(<<"-">>)]

\* a get_meeting_details request arrives: the two lookups, then the not-found
\* answer or the wait for resume.md
DetailsRequest(docId) ==
    /\ phase = "ready"
    /\ details.pc \in {"idle", "done"}
    /\ details' = IF NotFound(getDocument(documentsById, docId),
                              getMetadata(metadataById, docId))
                  THEN [pc |-> "done", document_id |-> docId,
                        response |-> MeetingNotFound(docId)]
                  ELSE [pc |-> "notes", document_id |-> docId,
                        doc |-> getDocument(documentsById, docId),
                        metadata |-> getMetadata(metadataById, docId)]
    /\ UNCHANGED <<diskVars, cacheVars, callVars, historyVars, parseVars, search2,
                   programVars>>

\* getResumeMarkdown resolves, with the text of resume.md or with null
DetailsNotesRead ==
    /\ details.pc = "notes"
    /\ \E resume \in {JNull, JStr(<<"n">>)} :
           details' = [pc |-> "done", document_id |-> details.document_id,
                       response |-> MeetingDetails(details.doc, details.metadata, resume)]
    /\ UNCHANGED <<diskVars, cacheVars, callVars, historyVars, parseVars, search2,
                   programVars>>

----------------------------------------------------------------------------
(* token-manager.ts: TokenManager, config.json and the token exchange *)

\* tokens are numbers, 0 standing for null, undefined and the empty string; an
\* expiry is an hour, 0 standing for null. With hours for instants, the five
\* minutes that isTokenExpired takes off the expiry fall within the hour
NoToken == 0
ExpiresInHours == 1

\* the number of exchanges the authentication server answers in one behaviour
MaxExchanges == 3

\* config.json with the four fields of TokenConfig
ConfigJson(refreshToken, clientId, accessToken, tokenExpiry) ==
    [k |-> "json", refresh_token |-> refreshToken, client_id |-> clientId,
     access_token |-> accessToken, token_expiry |-> tokenExpiry]

\* new TokenManager(): every field null
NewTokenManager ==
    [refreshToken |-> NoToken, clientId |-> NoToken, accessToken |-> NoToken,
     tokenExpiry |-> NoToken]

\* loadConfig(): the fields read from the file, or false when the file is
\* missing or is not JSON
loadConfig(m, file) ==
    IF file.k # "json" THEN [ok |-> FALSE, m |-> m]
    ELSE [ok |-> TRUE,
          m |-> [refreshToken |-> file.refresh_token,
                 clientId |-> file.client_id,
                 accessToken |-> file.access_token,
                 tokenExpiry |-> IF file.token_expiry # NoToken THEN file.token_expiry
                                 ELSE m.tokenExpiry]]

\* saveConfig(): the existing file is read and parsed, the non-null fields are
\* set in it and it is written back; whatever throws on the way (JSON.parse,
\* Bun.write) is caught and logged, and the file stays as it was
saveConfig(m, file, writes) ==
    IF file.k = "invalid" \/ ~writes THEN [thrown |-> FALSE, file |-> file]
    ELSE LET config == IF file.k = "json" THEN file
                       ELSE ConfigJson(NoToken, NoToken, NoToken, NoToken)
         IN  [thrown |-> FALSE,
              file |-> ConfigJson(
                  IF m.refreshToken # NoToken THEN m.refreshToken ELSE config.refresh_token,
                  IF m.clientId # NoToken THEN m.clientId ELSE config.client_id,
                  IF m.accessToken # NoToken THEN m.accessToken ELSE config.access_token,
                  IF m.tokenExpiry # NoToken THEN m.tokenExpiry ELSE config.token_expiry)]

\* isTokenExpired()
isTokenExpired(m, now) ==
    m.accessToken = NoToken \/ m.tokenExpiry = NoToken \/ now >= m.tokenExpiry

\* the results of refreshAccessToken
RefreshSucceeded == [success |-> TRUE]
RefreshFailed(reason) == [success |-> FALSE, reason |-> reason]

\* the answers of the authentication server to an exchange of the refresh token
\* `sent` while `valid` is the one it accepts: tokens with a rotated refresh
\* token, tokens without one, an error, or no answer at all
ExchangeAnswers(sent, valid, exchanges) ==
    (IF sent = valid
     THEN {[ok |-> TRUE, access_token |-> 100 + exchanges, refresh_token |-> valid + 1],
           [ok |-> TRUE, access_token |-> 100 + exchanges, refresh_token |-> NoToken]}
     ELSE {[ok |-> FALSE, text |-> "invalid_grant"]})
    \cup {[ok |-> FALSE, text |-> "server_error"], [ok |-> FALSE, text |-> "thrown"]}

\* a process starts: new TokenManager(), loadConfig()
TokenLoadConfig ==
    /\ tokenMgr.pc \in {"created", "returned"}
    /\ LET loaded == loadConfig(NewTokenManager, tokenMgr.file)
       IN  tokenMgr' = [tokenMgr EXCEPT !.pc = "loaded", !.m = loaded.m,
                                        !.loadedOk = loaded.ok, !.result = << >>]
    /\ UNCHANGED <<diskVars, cacheVars, callVars, historyVars, parseVars, toolVars,
                   sync, extraction, script>>

\* refreshAccessToken() up to its fetch: without a refresh token or a client id
\* it fails at once
TokenRefreshStart ==
    /\ tokenMgr.pc = "loaded"
    /\ tokenMgr.exchanges < MaxExchanges
    /\ tokenMgr' = IF tokenMgr.m.refreshToken = NoToken \/ tokenMgr.m.clientId = NoToken
                   THEN [tokenMgr EXCEPT !.pc = "returned",
                                         !.result = RefreshFailed("other")]
                   ELSE [tokenMgr EXCEPT !.pc = "exchanging",
                                         !.sent = tokenMgr.m.refreshToken]
    /\ UNCHANGED <<diskVars, cacheVars, callVars, historyVars, parseVars, toolVars,
                   sync, extraction, script>>

\* the exchange is answered: on an error or a throw refreshAccessToken returns a
\* failure; on tokens it sets its fields and calls saveConfig
TokenExchangeAnswered ==
    /\ tokenMgr.pc = "exchanging"
    /\ \E answer \in ExchangeAnswers(tokenMgr.sent, tokenMgr.valid, tokenMgr.exchanges) :
           tokenMgr' =
               IF ~answer.ok
               THEN [tokenMgr EXCEPT
                        !.pc = "returned",
                        !.exchanges = @ + 1,
                        !.result = RefreshFailed(IF answer.text = "invalid_grant"
                                                 THEN "invalid_grant" ELSE "other")]
               ELSE [tokenMgr EXCEPT
                        !.pc = "saving",
                        !.exchanges = @ + 1,
                        !.answer = answer,
                        !.valid = IF answer.refresh_token # NoToken
                                  THEN answer.refresh_token ELSE @,
                        !.m = [@ EXCEPT
                                 !.accessToken = answer.access_token,
                                 !.refreshToken = IF answer.refresh_token # NoToken
                                                  THEN answer.refresh_token ELSE @,
                                 !.tokenExpiry = clockNow + ExpiresInHours]]
    /\ UNCHANGED <<diskVars, cacheVars, callVars, historyVars, parseVars, toolVars,
                   sync, extraction, script>>

\* saveConfig() runs, the write going through or not, and refreshAccessToken
\* returns success
TokenSaveConfig ==
    /\ tokenMgr.pc = "saving"
    /\ \E writes \in BOOLEAN :
           LET saved == saveConfig(tokenMgr.m, tokenMgr.file, writes)
           IN  tokenMgr' = [tokenMgr EXCEPT
                               !.pc = "returned",
                               !.file = saved.file,
                               !.result = IF saved.thrown THEN RefreshFailed("other")
                                          ELSE RefreshSucceeded]
    /\ UNCHANGED <<diskVars, cacheVars, callVars, historyVars, parseVars, toolVars,
                   sync, extraction, script>>

----------------------------------------------------------------------------
(* main.ts: the loop of a sync over the fetched documents *)

\* what happens to a document of the list: all goes well; mkdir of its folder
\* throws; a Bun.write throws; fetchDocumentTranscript fails, which it reports by
\* returning null; a conversion to Markdown throws
DocumentFates == {"ok", "mkdirThrows", "writeThrows", "noTranscript", "convertThrows"}

\* the fates that are caught by the try/catch around the processing of a document
CaughtFates == {"writeThrows", "convertThrows"}

\* a sync at the start of its loop over the fetched documents
SyncOf(documents) ==
    [pc |-> "running", documents |-> documents, i |-> 1, syncedCount |-> 0]

\* one iteration of `for (const doc of documents)`: mkdir, which is outside
\* the try, then the writes, the transcript and the conversions inside it
SyncDocument ==
    /\ sync.pc = "running"
    /\ sync.i <= Len(sync.documents)
    /\ LET fate == sync.documents[sync.i]
       IN  sync' = IF fate = "mkdirThrows" THEN [sync EXCEPT !.pc = "fatal"]
                   ELSE IF fate \in CaughtFates THEN [sync EXCEPT !.i = @ + 1]
                   ELSE [sync EXCEPT !.i = @ + 1, !.syncedCount = @ + 1]
    /\ UNCHANGED <<diskVars, cacheVars, callVars, historyVars, parseVars, toolVars,
                   tokenMgr, extraction, script>>

\* the loop has ended: "Sync complete", main returns
SyncComplete ==
    /\ sync.pc = "running"
    /\ sync.i > Len(sync.documents)
    /\ sync' = [sync EXCEPT !.pc = "complete"]
    /\ UNCHANGED <<diskVars, cacheVars, callVars, historyVars, parseVars, toolVars,
                   tokenMgr, extraction, script>>

----------------------------------------------------------------------------
(* list-workspaces.ts and list-folders.ts: main() up to the first API request *)

\* what getValidToken returns: this.accessToken, or the RefreshResult of a failed
\* refresh
TokenString(accessToken) == [t |-> "string", token |-> accessToken]
TokenFailure(result) == [t |-> "object", result |-> result]

\* !accessToken as the scripts evaluate it: an object is truthy, a string is
\* falsy when it is null or empty
NotToken(returned) == returned.t = "string" /\ returned.token = NoToken

\* ensureConfigWithTokens(): config.json exists, or getTokensAutomatically is
\* called and its tokens are written to config.json, or it throws and the script
\* exits
ScriptEnsureConfig ==
    /\ script.pc = "started"
    /\ \/ /\ script.file.k # "missing"
          /\ script' = [script EXCEPT !.pc = "loading"]
       \/ /\ script.file.k = "missing"
          /\ \E extracted \in BOOLEAN :
                script' = IF extracted
                          THEN [script EXCEPT
                                   !.pc = "loading",
                                   !.file = ConfigJson(script.valid, 9, NoToken, NoToken)]
                          ELSE [script EXCEPT !.pc = "exited", !.exitCode = 1]
    /\ UNCHANGED <<diskVars, cacheVars, callVars, historyVars, parseVars, toolVars,
                   tokenMgr, sync, extraction>>

\* new TokenManager() and loadConfig(), whose result the two scripts do not test
ScriptLoadConfig ==
    /\ script.pc = "loading"
    /\ script' = [script EXCEPT !.pc = "validating",
                                !.m = loadConfig(NewTokenManager, script.file).m]
    /\ UNCHANGED <<diskVars, cacheVars, callVars, historyVars, parseVars, toolVars,
                   tokenMgr, sync, extraction>>

\* getValidToken(): the access token when it has not expired; otherwise
\* refreshAccessToken, which fails at once without a refresh token or a client id
ScriptGetValidToken ==
    /\ script.pc = "validating"
    /\ script' =
           IF ~isTokenExpired(script.m, clockNow)
           THEN [script EXCEPT !.pc = "testing",
                               !.returned = TokenString(script.m.accessToken)]
           ELSE IF script.m.refreshToken = NoToken \/ script.m.clientId = NoToken
           THEN [script EXCEPT !.pc = "testing", !.refreshFailed = TRUE,
                               !.returned = TokenFailure(RefreshFailed("other"))]
           ELSE [script EXCEPT !.pc = "exchanging"]
    /\ UNCHANGED <<diskVars, cacheVars, callVars, historyVars, parseVars, toolVars,
                   tokenMgr, sync, extraction>>

\* the exchange is answered: a failure comes back from getValidToken as it is;
\* on tokens the fields are set, saveConfig runs and the access token comes back
ScriptExchangeAnswered ==
    /\ script.pc = "exchanging"
    /\ \E answer \in ExchangeAnswers(script.m.refreshToken, script.valid, 0),
          writes \in BOOLEAN :
           script' =
               IF ~answer.ok
               THEN [script EXCEPT
                        !.pc = "testing", !.refreshFailed = TRUE,
                        !.returned =
                            TokenFailure(RefreshFailed(IF answer.text = "invalid_grant"
                                                       THEN "invalid_grant"
                                                       ELSE "other"))]
               ELSE LET m == [script.m EXCEPT
                                 !.accessToken = answer.access_token,
                                 !.refreshToken = IF answer.refresh_token # NoToken
                                                  THEN answer.refresh_token ELSE @,
                                 !.tokenExpiry = clockNow + ExpiresInHours]
                    IN  [script EXCEPT
                            !.pc = "testing",
                            !.m = m,
                            !.file = saveConfig(m, script.file, writes).file,
                            !.returned = TokenString(m.accessToken)]
    /\ UNCHANGED <<diskVars, cacheVars, callVars, historyVars, parseVars, toolVars,
                   tokenMgr, sync, extraction>>

\* if (!accessToken) process.exit(1)
ScriptTestToken ==
    /\ script.pc = "testing"
    /\ script' = IF NotToken(script.returned)
                 THEN [script EXCEPT !.pc = "exited", !.exitCode = 1]
                 ELSE [script EXCEPT !.pc = "fetching"]
    /\ UNCHANGED <<diskVars, cacheVars, callVars, historyVars, parseVars, toolVars,
                   tokenMgr, sync, extraction>>

\* fetchWorkspaces(accessToken) or fetchDocumentLists(accessToken): the request
\* is sent with `Bearer ${token}`; the answer is a list, or null on any error
ScriptFetch ==
    /\ script.pc = "fetching"
    /\ \E answered \in BOOLEAN :
           script' = [script EXCEPT
                         !.pc = "exited",
                         !.requests = Append(@, script.returned),
                         !.exitCode = IF answered THEN 0 ELSE 1]
    /\ UNCHANGED <<diskVars, cacheVars, callVars, historyVars, parseVars, toolVars,
                   tokenMgr, sync, extraction>>

----------------------------------------------------------------------------
(* granola-automation.ts: getTokensAutomatically and the Granola app *)

\* supabase.json: no file, text that is not JSON, JSON whose workos_tokens is not
\* JSON, or tokens: a refresh token (0 when absent) and an access token, which is
\* a JWT of one of the shapes of JwtShapes
SupabaseTokens(refreshToken, jwt) ==
    [k |-> "json", refresh_token |-> refreshToken, access_token |-> jwt]

JwtShapes == {"client", "twoParts", "badPayload", "noIss", "otherIss"}

\* extractClientIdFromJWT(accessToken): the client id of the `iss` field, or null
extractClientIdFromJWT(jwt) == IF jwt = "client" THEN 9 ELSE NoToken

\* extractTokensFromGranola(): the tokens, or a throw
extractTokensFromGranola(file) ==
    IF file.k # "json" THEN [thrown |-> TRUE]
    ELSE IF file.refresh_token = NoToken THEN [thrown |-> TRUE]
    ELSE IF extractClientIdFromJWT(file.access_token) = NoToken THEN [thrown |-> TRUE]
    ELSE [thrown |-> FALSE,
          tokens |-> [refreshToken |-> file.refresh_token,
                      clientId |-> extractClientIdFromJWT(file.access_token)]]

\* getTokensAutomatically after extractTokensFromGranola: a throw leaves the
\* function there; otherwise closeGranola is called if the app was not running
AfterExtraction(e, extracted) ==
    IF extracted.thrown THEN [e EXCEPT !.pc = "thrown", !.extracted = extracted]
    ELSE IF ~e.wasRunning THEN [e EXCEPT !.pc = "closing", !.extracted = extracted]
    ELSE [e EXCEPT !.pc = "returned", !.extracted = extracted]

\* getTokensAutomatically is called: isGranolaRunning, whose pgrep tells whether
\* the app runs, or fails, which is taken for "not running"
ExtractionStart ==
    /\ extraction.pc = "called"
    /\ \E pgrepWorks \in BOOLEAN :
           LET wasRunning == pgrepWorks /\ extraction.appRunning
           IN  extraction' = [extraction EXCEPT
                                 !.pc = IF wasRunning THEN "extracting" ELSE "launching",
                                 !.wasRunning = wasRunning]
    /\ UNCHANGED <<diskVars, cacheVars, callVars, historyVars, parseVars, toolVars,
                   tokenMgr, sync, script>>

\* launchGranola(): `open -a` starts the app; supabase.json is there within the
\* thirty attempts, or the launch throws
ExtractionLaunch ==
    /\ extraction.pc = "launching"
    /\ extraction' = IF extraction.supabase.k = "missing"
                     THEN [extraction EXCEPT !.pc = "thrown", !.appRunning = TRUE]
                     ELSE [extraction EXCEPT !.pc = "extracting", !.appRunning = TRUE]
    /\ UNCHANGED <<diskVars, cacheVars, callVars, historyVars, parseVars, toolVars,
                   tokenMgr, sync, script>>

\* extractTokensFromGranola() reads supabase.json
ExtractionExtract ==
    /\ extraction.pc = "extracting"
    /\ extraction' = AfterExtraction(extraction,
                                     extractTokensFromGranola(extraction.supabase))
    /\ UNCHANGED <<diskVars, cacheVars, callVars, historyVars, parseVars, toolVars,
                   tokenMgr, sync, script>>

\* closeGranola(): osascript quits the app, or fails with a warning
ExtractionClose ==
    /\ extraction.pc = "closing"
    /\ \E quits \in BOOLEAN :
           extraction' = [extraction EXCEPT
                             !.pc = "returned",
                             !.appRunning = IF quits THEN FALSE ELSE @]
    /\ UNCHANGED <<diskVars, cacheVars, callVars, historyVars, parseVars, toolVars,
                   tokenMgr, sync, script>>

----------------------------------------------------------------------------
(* The inputs of the model *)

D1 == <<"d", "1">>
D2 == <<"d", "2">>
D3 == <<"d", "3">>
D4 == <<"d", "4">>

JoeX == <<"J", "o", "e", "@", "x">>
JoeLower == <<"j", "o", "e", "@", "x">>
AmyY == <<"a", "m", "y", "@", "y">>

Attendee(field, chars) == JObj(<< <<field, JStr(chars)>> >>)

VideoEntryPoint ==
    JObj(<< <<"uri", JStr(<<"z">>)>>, <<"entryPointType", JStr(<<"v">>)>> >>)

\* well-formed entries, one per id alias and attendee alias
EntryD1 ==
    JObj(<< <<"id", JStr(D1)>>,
            <<"attendees", JArr(<<Attendee("email", JoeX)>>)>>,
            <<"conferenceData", JObj(<< <<"entryPoints", JArr(<<VideoEntryPoint>>)>> >>)>>,
            <<"calendarId", JStr(<<"c">>)>> >>)
EntryD2 ==
    JObj(<< <<"document_id", JStr(D2)>>,
            <<"participants", JArr(<<Attendee("emailAddress", AmyY),
                                      Attendee("email", JoeLower)>>)>> >>)
EntryD3 ==
    JObj(<< <<"meeting_id", JStr(D3)>>, <<"invitees", JArr(<< >>)>> >>)

\* malformed entries: no id alias; a non-object attendee; a null entry point
EntryNoId ==
    JObj(<< <<"attendees", JArr(<<Attendee("email", AmyY)>>)>> >>)
EntryBadAttendee ==
    JObj(<< <<"id", JStr(D4)>>,
            <<"attendees", JArr(<<JStr(<<"x">>), Attendee("email", AmyY)>>)>> >>)
EntryNullEntryPoint ==
    JObj(<< <<"id", JStr(D4)>>,
            <<"conferenceData", JObj(<< <<"entryPoints", JArr(<<JNull>>)>> >>)>> >>)

WellFormedEntries == {EntryD1, EntryD2, EntryD3}
MalformedEntries == {EntryNoId, EntryBadAttendee, EntryNullEntryPoint}

\* the longest list of entries of an enrichment file handed to the parser alone
MaxEntries == 3

RECURSIVE SeqsUpTo(_, _)
SeqsUpTo(S, n) ==
    IF n = 0 THEN {<< >>}
    ELSE LET shorter == SeqsUpTo(S, n - 1)
         IN  shorter \cup {Append(q, x) : q \in shorter, x \in S}

KeyNames == <<"k1", "k2", "k3", "k4", "k5", "k6", "k7", "k8">>
KeyName(i) == KeyNames[i]

\* the three top-level shapes the parser accepts, for one list of entries
FileShapes(entries) ==
    {FileJson(JArr(entries)),
     FileJson(JObj(<< <<"meetings", JArr(entries)>> >>)),
     FileJson(JObj([i \in DOMAIN entries |-> <<KeyName(i), entries[i]>>]))}

ParseInputs ==
    {FileMissing, FileUnreadable, FileInvalid}
    \cup UNION {FileShapes(q) :
                   q \in SeqsUpTo(WellFormedEntries \cup MalformedEntries, MaxEntries)}

\* enrichment files: FileA enriches d1 (attendee, conference, calendar) and d2;
\* FileB has d1 alone, with another attendee and no conference; FileN gives d2 an
\* attendee whose email is a number and d3 an attendee whose email is a string
FileA == FileJson(JArr(<<EntryD1, EntryD2>>))
FileB ==
    FileJson(JObj(<< <<"meetings",
        JArr(<<JObj(<< <<"id", JStr(D1)>>,
                       <<"attendees", JArr(<<Attendee("email", AmyY)>>)>> >>)>>)>> >>))
FileN ==
    FileJson(JArr(<<JObj(<< <<"id", JStr(D2)>>,
                            <<"attendees",
                              JArr(<<JObj(<< <<"email", JNum(7)>> >>)>>)>> >>),
                    JObj(<< <<"id", JStr(D3)>>,
                            <<"attendees", JArr(<<Attendee("email", AmyY)>>)>> >>)>>))

CacheFiles == {FileMissing, FileInvalid, FileA, FileB, FileN}

Folder(id, name) == JObj(<< <<"id", JStr(id)>>, <<"name", JStr(name)>> >>)
FolderEng == Folder(<<"f", "1">>, <<"E", "n", "g">>)
FolderOps == Folder(<<"f", "2">>, <<"O", "p", "s">>)

TitleBudRev == <<"B", "u", "d", " ", "R", "e", "v">>
TitleSync == <<"S", "y", "n", "c">>
TitleBudPlan == <<"b", "u", "d", "-", "p", "l", "a", "n">>

\* the hour the model's clock shows, and instants of meetings before it
ClockHour == 1000
RecentHour == 990
OldHour == 10

\* well-formed metadata.json files
MetaD1 ==
    FileJson(JObj(<< <<"document_id", JStr(D1)>>,
                     <<"title", JStr(TitleBudRev)>>,
                     <<"created_at", JDate(OldHour)>>,
                     <<"meeting_date", JDate(RecentHour)>>,
                     <<"workspace_id", JStr(<<"w", "1">>)>>,
                     <<"folders", JArr(<<FolderEng>>)>> >>))
MetaD2 ==
    FileJson(JObj(<< <<"document_id", JStr(D2)>>,
                     <<"title", JStr(TitleSync)>>,
                     <<"created_at", JDate(OldHour)>>,
                     <<"folders", JArr(<< >>)>> >>))
MetaD3 ==
    FileJson(JObj(<< <<"document_id", JStr(D3)>>,
                     <<"title", JStr(TitleBudPlan)>>,
                     <<"created_at", JStr(<<"?">>)>>,
                     <<"workspace_id", JStr(<<"w", "1">>)>>,
                     <<"folders", JArr(<<FolderEng, FolderOps>>)>> >>))

GoodMetadata == (D1 :> MetaD1) @@ (D2 :> MetaD2) @@ (D3 :> MetaD3)

\* malformed metadata.json files: a record with no title, a record with no folders
MetaNoTitle ==
    FileJson(JObj(<< <<"created_at", JDate(OldHour)>>, <<"folders", JArr(<< >>)>> >>))
MetaNoFolders ==
    FileJson(JObj(<< <<"title", JStr(TitleSync)>>, <<"created_at", JDate(OldHour)>> >>))

MalformedMetadata == {FileInvalid, FileJson(JNull), MetaNoTitle, MetaNoFolders}

DocIds == {D1, D2, D3}

Utterance(chars) == JObj(<< <<"text", JStr(chars)>> >>)

\* transcript.json: d1 has none, d2 talks about the "Bud get", d3 about "ops"
Transcripts ==
    (D1 :> FileMissing)
    @@ (D2 :> FileJson(JArr(<<Utterance(<<"B", "u", "d">>),
                              Utterance(<<"g", "e", "t">>)>>)))
    @@ (D3 :> FileJson(JArr(<<Utterance(<<"o", "p", "s">>)>>)))

----------------------------------------------------------------------------
(* The parser on its own: one enrichment file, parsed once *)

NoDisk ==
    /\ syncDir = [ok |-> FALSE, entries |-> << >>]
    /\ metadataFiles = << >>
    /\ transcriptFiles = << >>
    /\ cacheFile = FileMissing
    /\ clockNow = 0
    /\ zone = 0

NoCache ==
    /\ phase = "unused"
    /\ documentsById = EmptyMap
    /\ metadataById = EmptyMap
    /\ docOrder = << >>
    /\ attendeeIndex = EmptyMap
    /\ dateIndex = EmptyMap
    /\ workspaceIndex = EmptyMap
    /\ folderIndex = EmptyMap
    /\ tokenIndex = EmptyMap
    /\ granolaCache = EmptyMap

NoCalls ==
    /\ refresh = << >>
    /\ search = IdleSearch
    /\ initialIds = {}
    /\ lastRequested = 0
    /\ searchSeen = {}

NoParse ==
    /\ parseInput = [k |-> "none"]
    /\ parseOutput = << >>

\* no other tool call has been made and no program has been started
IdleCall == [pc |-> "idle"]

NoSide ==
    /\ details = IdleCall
    /\ search2 = IdleCall
    /\ tokenMgr = IdleCall
    /\ sync = IdleCall
    /\ extraction = IdleCall
    /\ script = IdleCall

InitParse ==
    /\ NoDisk /\ NoCache /\ NoCalls /\ NoSide
    /\ parseInput \in ParseInputs
    /\ parseOutput = << >>

NextParse == ParseFile

SpecParse == InitParse /\ [][NextParse]_vars

----------------------------------------------------------------------------
(* initialize() on its own, over well-formed and malformed sync directories *)

Listings == {<<D1, D2, D3>>, <<D3, D1, D2>>, <<D2, D1>>}

InitLoad ==
    /\ syncDir \in {[ok |-> FALSE, entries |-> << >>]}
                   \cup {[ok |-> TRUE, entries |-> l] : l \in Listings}
    /\ metadataFiles \in [DocIds -> {FileMissing} \cup MalformedMetadata \cup {MetaD1}]
                         \cup {GoodMetadata}
    /\ transcriptFiles = Transcripts
    /\ cacheFile \in {FileMissing, FileUnreadable, FileInvalid, FileA}
    /\ clockNow = ClockHour
    /\ zone = 0
    /\ phase = "constructed"
    /\ documentsById = EmptyMap
    /\ metadataById = EmptyMap
    /\ docOrder = << >>
    /\ attendeeIndex = EmptyMap
    /\ dateIndex = EmptyMap
    /\ workspaceIndex = EmptyMap
    /\ folderIndex = EmptyMap
    /\ tokenIndex = EmptyMap
    /\ granolaCache = EmptyMap
    /\ NoCalls /\ NoParse /\ NoSide

NextLoad == Initialize

SpecLoad == InitLoad /\ [][NextLoad]_vars

----------------------------------------------------------------------------
(* The server: initialize(), then refresh_cache calls that overlap, while Granola
   rewrites its cache file *)

\* the number of clients that may have a refresh_cache call in flight
NumCallers == 2

EmptyCache ==
    /\ phase = "constructed"
    /\ documentsById = EmptyMap
    /\ metadataById = EmptyMap
    /\ docOrder = << >>
    /\ attendeeIndex = EmptyMap
    /\ dateIndex = EmptyMap
    /\ workspaceIndex = EmptyMap
    /\ folderIndex = EmptyMap
    /\ tokenIndex = EmptyMap
    /\ granolaCache = EmptyMap

NoHistory ==
    /\ initialIds = {}
    /\ lastRequested = 0
    /\ searchSeen = {}

Init ==
    /\ syncDir = [ok |-> TRUE, entries |-> <<D1, D2, D3>>]
    /\ metadataFiles = GoodMetadata
    /\ transcriptFiles = Transcripts
    /\ cacheFile \in CacheFiles
    /\ clockNow = ClockHour
    /\ zone = 0
    /\ EmptyCache
    /\ refresh = [p \in 1..NumCallers |-> IdleRefresh]
    /\ search = IdleSearch
    /\ NoHistory /\ NoParse /\ NoSide

Next ==
    \/ Initialize
    \/ \E p \in DOMAIN refresh : RefreshRequest(p)
    \/ \E p \in DOMAIN refresh : RefreshRead(p)
    \/ \E p \in DOMAIN refresh : RefreshApply(p)
    \/ \E file \in CacheFiles : WriteCacheFile(file)

Spec == Init /\ [][Next]_vars

\* one client refreshing while the cache file is rewritten, deleted, made
\* unreadable or corrupted
RefreshFiles == CacheFiles \cup {FileUnreadable}

InitRefresh ==
    /\ syncDir = [ok |-> TRUE, entries |-> <<D1, D2, D3>>]
    /\ metadataFiles = GoodMetadata
    /\ transcriptFiles = Transcripts
    /\ cacheFile \in RefreshFiles
    /\ clockNow = ClockHour
    /\ zone = 0
    /\ EmptyCache
    /\ refresh = <<IdleRefresh>>
    /\ search = IdleSearch
    /\ NoHistory /\ NoParse /\ NoSide

NextRefresh ==
    \/ Initialize
    \/ RefreshRequest(1)
    \/ RefreshRead(1)
    \/ RefreshApply(1)
    \/ \E file \in RefreshFiles : WriteCacheFile(file)

SpecRefresh == InitRefresh /\ [][NextRefresh]_vars

----------------------------------------------------------------------------
(* The server answering searches, with nothing else in flight *)

Query(attendee, startDate, endDate, workspace, folder, content, limit) ==
    [attendee_email |-> attendee, start_date |-> startDate, end_date |-> endDate,
     workspace_id |-> workspace, folder_name |-> folder, content_query |-> content,
     limit |-> limit]

NoFilter == Query(Undefined, Undefined, Undefined, Undefined, Undefined, Undefined,
                  Undefined)

\* an ISO calendar day given as a date ("2025-01-15"): new Date parses it as
\* midnight UTC of that day
IsoCalendarDay(day) == JDate(day * HoursPerDay)

\* the offsets from UTC, in hours, of the zones the process may run in
Zones == {-5, 0, 9}

\* the limits a search is given: none, one result, and a negative number, which
\* the tool's schema (type "number") lets through
Limits == {Undefined, JNum(1), JNum(-1)}

\* the searches the model asks: each filter absent or one value, every combination
Queries ==
    {Query(a, s, e, w, f, c, l) :
        a \in {Undefined, JStr(<<"J", "O", "E">>)},
        s \in {Undefined, JDate(RecentHour)},
        e \in {Undefined, IsoCalendarDay(IsoDay(RecentHour))},
        w \in {Undefined, JStr(<<"w", "1">>)},
        f \in {Undefined, JStr(<<"o", "p">>)},
        c \in {Undefined, JStr(<<"B", "u", "d">>), JStr(<<"o", "p", "s">>)},
        l \in Limits}

InitSearch ==
    /\ syncDir = [ok |-> TRUE, entries |-> <<D1, D2, D3>>]
    /\ metadataFiles = GoodMetadata
    /\ transcriptFiles = Transcripts
    /\ cacheFile \in {FileMissing, FileA, FileB}
    /\ clockNow = ClockHour
    /\ zone \in Zones
    /\ EmptyCache
    /\ refresh = << >>
    /\ search = IdleSearch
    /\ NoHistory /\ NoParse /\ NoSide

NextSearch ==
    \/ Initialize
    \/ \E params \in Queries : SearchRequest(params)
    \/ SearchTranscriptRead
    \/ SearchNotesRead

SpecSearch == InitSearch /\ [][NextSearch]_vars

----------------------------------------------------------------------------
(* The server answering get_meeting_details, for ids it loaded, ids it listed but
   could not load, and ids it never saw *)

\* the metadata files, all good or with one that is missing
DetailsMetadata ==
    {GoodMetadata} \cup {[GoodMetadata EXCEPT ![d] = FileMissing] : d \in DocIds}

InitDetails ==
    /\ syncDir \in {[ok |-> TRUE, entries |-> l] : l \in Listings}
    /\ metadataFiles \in DetailsMetadata
    /\ transcriptFiles = Transcripts
    /\ cacheFile \in {FileMissing, FileA}
    /\ clockNow = ClockHour
    /\ zone = 0
    /\ EmptyCache
    /\ refresh = << >>
    /\ search = IdleSearch
    /\ NoHistory /\ NoParse /\ NoSide

NextDetails ==
    \/ Initialize
    \/ \E docId \in DocIds \cup {D4} : DetailsRequest(docId)
    \/ DetailsNotesRead

SpecDetails == InitDetails /\ [][NextDetails]_vars

----------------------------------------------------------------------------
(* The server answering two searches at once: each may start while the other
   waits for a transcript or for notes *)

\* searches that narrow a workspace's documents, look into transcripts, or both
TwoQueries ==
    {Query(a, Undefined, Undefined, w, Undefined, c, l) :
        a \in {Undefined, JStr(<<"J", "O", "E">>)},
        w \in {Undefined, JStr(<<"w", "1">>)},
        c \in {Undefined, JStr(<<"o", "p", "s">>)},
        l \in {Undefined}}

InitTwoSearches ==
    /\ syncDir = [ok |-> TRUE, entries |-> <<D1, D2, D3>>]
    /\ metadataFiles = GoodMetadata
    /\ transcriptFiles = Transcripts
    /\ cacheFile \in {FileMissing, FileA}
    /\ clockNow = ClockHour
    /\ zone = 0
    /\ EmptyCache
    /\ refresh = << >>
    /\ search = IdleSearch
    /\ NoHistory /\ NoParse /\ NoSide

NextTwoSearches ==
    \/ Initialize
    \/ \E params \in TwoQueries : SearchRequest(params)
    \/ SearchTranscriptRead
    \/ SearchNotesRead
    \/ \E params \in TwoQueries : Search2Request(params)
    \/ Search2TranscriptRead
    \/ Search2NotesRead

SpecTwoSearches == InitTwoSearches /\ [][NextTwoSearches]_vars

----------------------------------------------------------------------------
(* The token manager on its own: processes that load config.json and refresh the
   access token, one after another *)

\* a TokenManager that has not loaded its file, the file as given, the server
\* accepting the refresh token `valid`
TokenManagerWith(file, valid) ==
    [pc |-> "created", file |-> file, m |-> NewTokenManager, loadedOk |-> FALSE,
     valid |-> valid, sent |-> NoToken, answer |-> << >>, exchanges |-> 0,
     result |-> << >>]

\* config.json as the user or an earlier run left it: the valid refresh token, a
\* consumed one, a file with an access token, no client id, no file
ConfigFiles ==
    {ConfigJson(2, 9, NoToken, NoToken), ConfigJson(1, 9, NoToken, NoToken),
     ConfigJson(2, 9, 100, ClockHour + 1), ConfigJson(2, NoToken, NoToken, NoToken),
     FileMissing}

InitToken ==
    /\ NoDisk /\ NoCache /\ NoCalls /\ NoParse
    /\ details = IdleCall /\ search2 = IdleCall
    /\ tokenMgr \in {TokenManagerWith(file, 2) : file \in ConfigFiles}
    /\ sync = IdleCall /\ extraction = IdleCall /\ script = IdleCall

NextToken ==
    \/ TokenLoadConfig
    \/ TokenRefreshStart
    \/ TokenExchangeAnswered
    \/ TokenSaveConfig

SpecToken == InitToken /\ [][NextToken]_vars

----------------------------------------------------------------------------
(* A sync run over a list of fetched documents *)

MaxDocuments == 3

\* the lists of up to MaxDocuments documents, each with its fate
DocumentLists ==
    UNION {[1..n -> DocumentFates] : n \in 1..MaxDocuments}

InitSync ==
    /\ NoDisk /\ NoCache /\ NoCalls /\ NoParse
    /\ details = IdleCall /\ search2 = IdleCall
    /\ tokenMgr = IdleCall
    /\ sync \in {SyncOf(documents) : documents \in DocumentLists}
    /\ extraction = IdleCall /\ script = IdleCall

NextSync ==
    \/ SyncDocument
    \/ SyncComplete

SpecSync == InitSync /\ [][NextSync]_vars

----------------------------------------------------------------------------
(* A run of list-workspaces or list-folders *)

\* a script at the start of main(), config.json as given, the server accepting
\* the refresh token `valid`
ScriptWith(file, valid) ==
    [pc |-> "started", file |-> file, valid |-> valid, m |-> NewTokenManager,
     returned |-> << >>, refreshFailed |-> FALSE, requests |-> <<>>, exitCode |-> -1]

\* config.json as ConfigFiles, or with an access token that has expired, or
\* not JSON
ScriptConfigFiles ==
    ConfigFiles \cup {ConfigJson(2, 9, 100, ClockHour - 1), FileInvalid}

InitScript ==
    /\ NoDisk /\ NoCache /\ NoCalls /\ NoParse
    /\ details = IdleCall /\ search2 = IdleCall
    /\ tokenMgr = IdleCall /\ sync = IdleCall /\ extraction = IdleCall
    /\ script \in {ScriptWith(file, valid) :
                      file \in ScriptConfigFiles, valid \in {2, 3}}

NextScript ==
    \/ ScriptEnsureConfig
    \/ ScriptLoadConfig
    \/ ScriptGetValidToken
    \/ ScriptExchangeAnswered
    \/ ScriptTestToken
    \/ ScriptFetch

SpecScript == InitScript /\ [][NextScript]_vars

----------------------------------------------------------------------------
(* Automatic token extraction, with the Granola app running or not *)

SupabaseFiles ==
    {FileMissing, FileInvalid, [k |-> "invalidTokens"]}
    \cup {SupabaseTokens(r, jwt) : r \in {NoToken, 2}, jwt \in JwtShapes}

\* a call of getTokensAutomatically, the app running or not
ExtractionWith(running, file) ==
    [pc |-> "called", appRunning |-> running, ranAtStart |-> running,
     wasRunning |-> FALSE, supabase |-> file, extracted |-> << >>]

InitExtraction ==
    /\ NoDisk /\ NoCache /\ NoCalls /\ NoParse
    /\ details = IdleCall /\ search2 = IdleCall
    /\ tokenMgr = IdleCall /\ sync = IdleCall
    /\ extraction \in {ExtractionWith(running, file) :
                           running \in BOOLEAN, file \in SupabaseFiles}
    /\ script = IdleCall

NextExtraction ==
    \/ ExtractionStart
    \/ ExtractionLaunch
    \/ ExtractionExtract
    \/ ExtractionClose

SpecExtraction == InitExtraction /\ [][NextExtraction]_vars

----------------------------------------------------------------------------
(* The server answering searches by date: each side of the range absent, an ISO
   date, a relative date or an expression the parser does not support *)

WordSoon == <<"s", "o", "o", "n">>

StartExpressions ==
    {Undefined, JDate(RecentHour), JStr(WordSoon), JStr(<<" ">> \o WordLastWeek)}

EndExpressions ==
    {Undefined, IsoCalendarDay(IsoDay(RecentHour)), JStr(WordSoon), JStr(WordYesterday)}

DateQueries ==
    {Query(Undefined, s, e, Undefined, Undefined, Undefined, Undefined) :
        s \in StartExpressions, e \in EndExpressions}

NextDates ==
    \/ Initialize
    \/ \E params \in DateQueries : SearchRequest(params)
    \/ SearchNotesRead

SpecDates == InitSearch /\ [][NextDates]_vars

----------------------------------------------------------------------------
(* The server answering one call after another: searches by attendee between
   refreshes, while Granola rewrites its cache file *)

ByAttendee(chars) ==
    Query(JStr(chars), Undefined, Undefined, Undefined, Undefined, Undefined, Undefined)

AttendeeQueries == {ByAttendee(<<"J", "O", "E">>), ByAttendee(<<"a", "m", "y">>),
                    ByAttendee(<<"z">>)}

InitSequential ==
    /\ syncDir = [ok |-> TRUE, entries |-> <<D1, D2, D3>>]
    /\ metadataFiles = GoodMetadata
    /\ transcriptFiles = Transcripts
    /\ cacheFile \in {FileMissing, FileA}
    /\ clockNow = ClockHour
    /\ zone = 0
    /\ EmptyCache
    /\ refresh = <<IdleRefresh>>
    /\ search = IdleSearch
    /\ NoHistory /\ NoParse /\ NoSide

\* no search is waiting for a file
SearchAtRest == search.pc \in {"idle", "done", "error"}

\* no refresh is waiting for the cache file
RefreshAtRest == \A p \in DOMAIN refresh : refresh[p].pc \in {"idle", "done"}

NextSequential ==
    \/ Initialize
    \/ SearchAtRest /\ RefreshRequest(1)
    \/ RefreshRead(1)
    \/ RefreshApply(1)
    \/ RefreshAtRest /\ \E params \in AttendeeQueries : SearchRequest(params)
    \/ SearchNotesRead
    \/ \E file \in {FileMissing, FileA, FileB, FileN} : WriteCacheFile(file)

SpecSequential == InitSequential /\ [][NextSequential]_vars

----------------------------------------------------------------------------
(* The server ranking meetings held at different times: three documents alike in
   all but their instants, searched without a content query *)

\* an hour after the hour the clock shows: a meeting that is still to come
FutureHour == 1010

\* the instants a meeting may have: long past, recent, now, still to come
Instants == {OldHour, RecentHour, ClockHour, FutureHour}

\* metadata.json of a meeting held at the given hour
MetaAt(docId, hour) ==
    FileJson(JObj(<< <<"document_id", JStr(docId)>>,
                     <<"title", JStr(TitleSync)>>,
                     <<"created_at", JDate(OldHour)>>,
                     <<"meeting_date", JDate(hour)>>,
                     <<"workspace_id", JStr(<<"w", "1">>)>>,
                     <<"folders", JArr(<<FolderEng>>)>> >>))

\* metadata.json of a document with no meeting date, created at the given hour
MetaCreatedAt(docId, hour) ==
    FileJson(JObj(<< <<"document_id", JStr(docId)>>,
                     <<"title", JStr(TitleSync)>>,
                     <<"created_at", JDate(hour)>>,
                     <<"workspace_id", JStr(<<"w", "1">>)>>,
                     <<"folders", JArr(<<FolderEng>>)>> >>))

\* searches with no content query
ScoreQueries ==
    {Query(Undefined, Undefined, Undefined, w, Undefined, Undefined, l) :
        w \in {Undefined, JStr(<<"w", "1">>)}, l \in {Undefined, JNum(1)}}

InitScore ==
    /\ syncDir = [ok |-> TRUE, entries |-> <<D1, D2, D3>>]
    /\ metadataFiles \in {(D1 :> MetaAt(D1, h1)) @@ (D2 :> MetaAt(D2, h2))
                              @@ (D3 :> MetaCreatedAt(D3, h3)) :
                              h1 \in Instants, h2 \in Instants, h3 \in Instants}
    /\ transcriptFiles = Transcripts
    /\ cacheFile \in {FileMissing, FileA}
    /\ clockNow = ClockHour
    /\ zone = 0
    /\ EmptyCache
    /\ refresh = << >>
    /\ search = IdleSearch
    /\ NoHistory /\ NoParse /\ NoSide

NextScore ==
    \/ Initialize
    \/ \E params \in ScoreQueries : SearchRequest(params)
    \/ SearchNotesRead

SpecScore == InitScore /\ [][NextScore]_vars

----------------------------------------------------------------------------
(* The server answering a search while a refresh runs and the disk changes *)

ByJoe == [NoFilter EXCEPT !.attendee_email = JStr(<<"j", "o", "e">>)]
ByBud == [NoFilter EXCEPT !.content_query = JStr(<<"b", "u", "d">>)]

InitConcurrent ==
    /\ syncDir = [ok |-> TRUE, entries |-> <<D1, D2>>]
    /\ metadataFiles = GoodMetadata
    /\ transcriptFiles = Transcripts
    /\ cacheFile \in {FileA, FileB}
    /\ clockNow = ClockHour
    /\ zone = 0
    /\ EmptyCache
    /\ refresh = [p \in {1} |-> IdleRefresh]
    /\ search = IdleSearch
    /\ NoHistory /\ NoParse /\ NoSide

NextConcurrent ==
    \/ Initialize
    \/ \E p \in DOMAIN refresh : RefreshRequest(p)
    \/ \E p \in DOMAIN refresh : RefreshRead(p)
    \/ \E p \in DOMAIN refresh : RefreshApply(p)
    \/ \E file \in {FileMissing, FileA, FileB} : WriteCacheFile(file)
    \/ \E params \in {ByJoe, ByBud} : SearchRequest(params)
    \/ SearchTranscriptRead
    \/ SearchNotesRead
    \/ AddDirectory(D3)
    \/ \E d \in {D1, D3} : RemoveDirectory(d)

SpecConcurrent == InitConcurrent /\ [][NextConcurrent]_vars

----------------------------------------------------------------------------
(* Properties *)

\* the entries of an enrichment file of ParseInputs, in file order
EntriesOf(file) ==
    IF file.v.t = "array" THEN file.v.a
    ELSE IF Prop(file.v, "meetings").t = "array" THEN Prop(file.v, "meetings").a
    ELSE [i \in DOMAIN file.v.p |-> file.v.p[i][2]]

\* the id of an entry, under whichever alias it carries
EntryId(entry) ==
    JsOr(Prop(entry, "id"), JsOr(Prop(entry, "document_id"),
         JsOr(Prop(entry, "documentId"), Prop(entry, "meeting_id"))))

\* C10: when the enrichment file holds exactly one malformed entry (no id alias, a
\* non-object attendee, or a null element in its entry-points list), every
\* well-formed entry of the file, before or after it, is a key of the mapping the
\* parser returns.
C10_MalformedEntrySkippedAlone ==
    (parseOutput # << >> /\ parseInput.k = "json") =>
        LET entries == EntriesOf(parseInput)
        IN  Cardinality({i \in DOMAIN entries : entries[i] \in MalformedEntries}) = 1
            => \A i \in DOMAIN entries :
                   entries[i] \in WellFormedEntries
                   => EntryId(entries[i]) \in DOMAIN parseOutput[1]

\* a metadata.json that parses to a record with a title and a list of folders
WellFormedMetadata(file) ==
    /\ file.k = "json"
    /\ file.v.t = "object"
    /\ Prop(file.v, "title").t = "string"
    /\ Prop(file.v, "folders").t = "array"

\* the document is under every token of its title and every one of its folder names
IndexedByTitleAndFolders(docId, file) ==
    /\ \A token \in Range(tokenize(Prop(file.v, "title").s)) :
           token \in DOMAIN tokenIndex /\ docId \in tokenIndex[token]
    /\ \A i \in DOMAIN Prop(file.v, "folders").a :
           LET name == ToLowerCase(Prop(Prop(file.v, "folders").a[i], "name").s)
           IN  name \in DOMAIN folderIndex /\ docId \in folderIndex[name]

\* C9: a malformed metadata.json (invalid JSON, null, a record with no title or no
\* folders) affects its own document only: initialize() fails exactly when the sync
\* directory cannot be enumerated, and otherwise every listed directory with a
\* well-formed metadata.json is loaded and indexed, and every other one is skipped.
C9_MalformedMetadataIsolated ==
    phase \in {"ready", "failed"} =>
        /\ phase = "failed" <=> ~syncDir.ok
        /\ syncDir.ok =>
               \A d \in Range(syncDir.entries) :
                   IF WellFormedMetadata(metadataFiles[d])
                   THEN d \in DOMAIN documentsById
                        /\ IndexedByTitleAndFolders(d, metadataFiles[d])
                   ELSE d \notin DOMAIN documentsById

\* the document's transcript contains the query, whatever the letter case
TranscriptContains(docId, query) ==
    LET transcript == getTranscript(transcriptFiles[docId])
    IN  /\ transcript.t = "array"
        /\ Includes(ToLowerCase(JoinTexts(transcript.a)), ToLowerCase(query))

\* the document's title shares a token with the query
TitleSharesToken(docId, query) ==
    Range(tokenize(Prop(metadataById[docId], "title").s)) \cap Range(tokenize(query)) # {}

\* C1: under a content query, a document whose title shares no token with the query
\* and whose transcript does not contain the query is in no search's matches.
C1_ContentQueryExcludesNonMatching ==
    (search.pc = "done" /\ Truthy(search.params.content_query)) =>
        \A i \in DOMAIN search.matches :
            \/ TitleSharesToken(search.matches[i].document_id,
                                search.params.content_query.s)
            \/ TranscriptContains(search.matches[i].document_id,
                                  search.params.content_query.s)

\* what a finished search returns
SearchResponse(s) == [matches |-> s.matches, total_matches |-> s.total_matches]

\* the search run alone on one state of the enrichment data and the attendee index
SearchOn(params, snap) ==
    LET c == CacheView(snap.documentsById, metadataById, docOrder, snap.attendeeIndex,
                       workspaceIndex, folderIndex, tokenIndex)
    IN  RunSearch(StartSearch(params, c, clockNow, zone), c, transcriptFiles, clockNow)

\* C2: a search interleaved with a refresh returns what it would return run alone on
\* one of the states of the cache that existed while it ran: the state before the
\* refresh or the state after it, never a mix.
C2_SearchSeesOneSideOfRefresh ==
    search.pc = "done" =>
        \E snap \in searchSeen :
            SearchResponse(search) = SearchResponse(SearchOn(search.params, snap))

\* the document ids the attendee index holds
AttendeeIndexed == UNION {attendeeIndex[k] : k \in DOMAIN attendeeIndex}

\* C3: after a refresh, a loaded document with no entry in the freshly parsed
\* mapping has an empty attachment and is in no set of the attendee index.
C3_NoEntryRevertsToEmpty ==
    phase = "ready" =>
        \A d \in DOMAIN documentsById :
            ~Truthy(getMeetingFromCache(d, granolaCache))
            => /\ documentsById[d].meeting_metadata = EmptyAttachment
               /\ d \notin AttendeeIndexed

\* C4: after a refresh, a loaded document with an entry in the freshly parsed
\* mapping has the attachment that entry alone yields.
C4_EntryAloneDecidesAttachment ==
    phase = "ready" =>
        \A d \in DOMAIN documentsById :
            Truthy(getMeetingFromCache(d, granolaCache))
            => documentsById[d].meeting_metadata
                   = Enrich(EmptyAttachment, getMeetingFromCache(d, granolaCache))

\* C5 as claimed: when the enrichment file is missing, unreadable or invalid at the
\* refresh, the attachments and the attendee index are as before the refresh and the
\* refresh is reported as failed.
C5_FailedReadReportedAsFailed ==
    \A p \in DOMAIN refresh :
        (refresh[p].pc = "done" /\ refresh[p].readFailed)
        => refresh[p].unchanged /\ refresh[p].response.isError

\* C5 as amended: when the enrichment file is missing, unreadable or invalid at the
\* refresh, the attachments and the attendee index are as before the refresh, and
\* the refresh is not reported as failed: the handler answers success with the
\* statistics, and answers an error only when the rebuild of the attendee index
\* throws on a non-string email that was in memory before this refresh.
C5_FailedReadKeepsStateAndSucceeds ==
    \A p \in DOMAIN refresh :
        (refresh[p].pc = "done" /\ refresh[p].readFailed)
        => /\ refresh[p].unchanged
           /\ IF refresh[p].stringEmails
              THEN /\ refresh[p].response.success
                   /\ ~refresh[p].response.isError
                   /\ refresh[p].response.stats.totalDocuments = Cardinality(initialIds)
              ELSE refresh[p].response.isError

\* a refresh that found no readable file has completed over enriched documents
C5_Witness ==
    \E p \in DOMAIN refresh :
        /\ refresh[p].pc = "done" /\ refresh[p].readFailed
        /\ refresh[p].response.success
        /\ refresh[p].response.stats.documentsWithAttendees > 0

\* C6: refreshes are serialized, so overlapping requests take effect in request
\* order: when no refresh is in flight, the enrichment mapping in memory is the one
\* read for the request made last.
C6_LastRequestedRefreshWins ==
    (/\ phase = "ready"
     /\ lastRequested \in DOMAIN refresh
     /\ \A p \in DOMAIN refresh : refresh[p].pc \in {"idle", "done"})
    => granolaCache = refresh[lastRequested].parsed

\* the fields of the documents that are not the Enrichment Attachment
NonEnrichment(docs) ==
    [d \in DOMAIN docs |->
        [id |-> docs[d].id, title |-> docs[d].title, created_at |-> docs[d].created_at,
         updated_at |-> docs[d].updated_at, workspace_id |-> docs[d].workspace_id]]

\* C7: once initialize() has returned, no step (a refresh in particular) changes the
\* date, workspace, folder or title-token index, the metadata, or any document's
\* title, instants or workspace: only attachments and the attendee index change.
C7_RefreshFrame ==
    [][phase = "ready" =>
          /\ dateIndex' = dateIndex
          /\ workspaceIndex' = workspaceIndex
          /\ folderIndex' = folderIndex
          /\ tokenIndex' = tokenIndex
          /\ metadataById' = metadataById
          /\ NonEnrichment(documentsById') = NonEnrichment(documentsById)]_vars

\* a refresh has completed and changed an attachment or the attendee index
C7_Witness ==
    \E p \in DOMAIN refresh :
        refresh[p].pc = "done" /\ ~refresh[p].unchanged /\ ~refresh[p].readFailed

\* C8: the loaded document ids are those initialize() loaded, whatever refreshes
\* ran and whatever directories were added to or removed from the sync directory
\* since; totalDocuments counts them and every match of a search is one of them.
C8_DocumentSetFixedByInitialize ==
    phase = "ready" =>
        /\ DOMAIN documentsById = initialIds
        /\ Stats(documentsById, attendeeIndex).totalDocuments = Cardinality(initialIds)
        /\ \A i \in DOMAIN search.matches : search.matches[i].document_id \in initialIds
        /\ \A p \in DOMAIN refresh :
               refresh[p].pc = "done" /\ ~refresh[p].response.isError
               => refresh[p].response.stats.totalDocuments = Cardinality(initialIds)

\* a directory was added and one removed, a refresh completed and a search returned
C8_Witness ==
    /\ phase = "ready"
    /\ D3 \in Range(syncDir.entries)
    /\ D1 \notin Range(syncDir.entries)
    /\ \E p \in DOMAIN refresh : refresh[p].pc = "done" /\ ~refresh[p].unchanged
    /\ search.pc = "done"
    /\ Len(search.matches) > 0

\* every directory of the sync directory holds a well-formed metadata.json
AllMetadataWellFormed ==
    /\ syncDir.ok
    /\ \A i \in DOMAIN syncDir.entries :
           WellFormedMetadata(metadataFiles[syncDir.entries[i]])

\* C11: when the enrichment file is absent, unreadable or not valid JSON, the parser
\* returns an empty mapping and initialize() is not failed by it: no document has
\* attendees, the statistics report documentsWithAttendees = 0 and uniqueAttendees
\* = 0, and over an enumerable sync directory of well-formed metadata files
\* initialize() succeeds with every document loaded.
C11_AbsentEnrichmentFileIsHarmless ==
    (phase \in {"ready", "failed"} /\ cacheFile.k # "json") =>
        /\ granolaCache = EmptyMap
        /\ Stats(documentsById, attendeeIndex).documentsWithAttendees = 0
        /\ Stats(documentsById, attendeeIndex).uniqueAttendees = 0
        /\ AllMetadataWellFormed =>
               /\ phase = "ready"
               /\ DOMAIN documentsById = Range(syncDir.entries)

\* initialize() has succeeded over three documents with an invalid enrichment file
C11_Witness ==
    /\ phase = "ready"
    /\ cacheFile = FileInvalid
    /\ Cardinality(DOMAIN documentsById) = 3
    /\ Stats(documentsById, attendeeIndex).documentsWithAttendees = 0

\* C12: when the sync directory cannot be enumerated, initialize() fails, and the
\* document set and the five indexes are empty.
C12_UnlistableDirectoryIsFatal ==
    (phase \in {"ready", "failed"} /\ ~syncDir.ok) =>
        /\ phase = "failed"
        /\ documentsById = EmptyMap
        /\ metadataById = EmptyMap
        /\ attendeeIndex = EmptyMap
        /\ dateIndex = EmptyMap
        /\ workspaceIndex = EmptyMap
        /\ folderIndex = EmptyMap
        /\ tokenIndex = EmptyMap

\* initialize() has failed on the sync directory after parsing an enrichment file
C12_Witness ==
    /\ phase = "failed"
    /\ ~syncDir.ok
    /\ granolaCache # EmptyMap

\* every set of an index holds loaded document ids only
WithinLoaded(index) == \A k \in DOMAIN index : index[k] \subseteq DOMAIN documentsById

\* the metadata holds a meeting date, or else a creation date, that parses
HasUsableDate(metadata) ==
    LET dateStr == JsOr(Prop(metadata, "meeting_date"), Prop(metadata, "created_at"))
    IN  Truthy(dateStr) /\ dateStr.t = "isostring"

\* the parsed enrichment mapping holds an attendee whose email is not a string
NonStringEmailParsed ==
    \E k \in DOMAIN granolaCache :
        /\ granolaCache[k].attendees.t = "array"
        /\ \E i \in DOMAIN granolaCache[k].attendees.a :
               LET email == granolaCache[k].attendees.a[i].email
               IN  Truthy(email) /\ email.t # "string"

\* C13: after initialization and after any refreshes, every set of the five indexes
\* holds loaded document ids only, and a document with no parseable meeting or
\* creation date is in no set of the date index; its presence raises no error
\* (over well-formed metadata initialize() fails on a non-string email only).
C13_IndexSetsWithinLoadedDocuments ==
    /\ phase = "failed" => NonStringEmailParsed
    /\ phase = "ready" =>
        /\ WithinLoaded(attendeeIndex)
        /\ WithinLoaded(dateIndex)
        /\ WithinLoaded(workspaceIndex)
        /\ WithinLoaded(folderIndex)
        /\ WithinLoaded(tokenIndex)
        /\ \A d \in DOMAIN documentsById :
               ~HasUsableDate(metadataById[d])
               => \A day \in DOMAIN dateIndex : d \notin dateIndex[day]

\* a refresh has changed the attendee index of a cache that holds an undated document
C13_Witness ==
    /\ phase = "ready"
    /\ \E p \in DOMAIN refresh : refresh[p].pc = "done" /\ ~refresh[p].unchanged
    /\ \E d \in DOMAIN documentsById : ~HasUsableDate(metadataById[d])
    /\ dateIndex # EmptyMap
    /\ attendeeIndex # EmptyMap

\* the instant falls on the calendar day, by the UTC calendar and by the calendar of
\* the zone the process runs in
OnCalendarDay(instant, day, tz) ==
    /\ IsoDay(instant) = day
    /\ IsoDay(instant + tz) = day

\* the search has no filter but an end date, given as an ISO calendar day
OnlyEndDay(params) ==
    /\ params.end_date.t = "isostring"
    /\ params.end_date.d % HoursPerDay = 0
    /\ ~Truthy(params.start_date)
    /\ ~Truthy(params.attendee_email)
    /\ ~Truthy(params.workspace_id)
    /\ ~Truthy(params.folder_name)

\* C14: when end_date is an ISO calendar day, every document whose meeting instant
\* (or creation instant, without one) falls on that day passes the date filter, in
\* whatever time zone the process runs.
C14_EndDayIsInclusive ==
    (search.pc # "idle" /\ OnlyEndDay(search.params)) =>
        \A d \in DOMAIN documentsById :
            (/\ HasUsableDate(metadataById[d])
             /\ OnCalendarDay(DateTime(JsOr(Prop(metadataById[d], "meeting_date"),
                                            Prop(metadataById[d], "created_at"))),
                              IsoDay(search.params.end_date.d), zone))
            => d \in Range(search.candidateIds)

\* the search has no filter but an attendee pattern, and no content query
OnlyAttendee(params) ==
    /\ Truthy(params.attendee_email)
    /\ ~Truthy(params.start_date)
    /\ ~Truthy(params.end_date)
    /\ ~Truthy(params.workspace_id)
    /\ ~Truthy(params.folder_name)
    /\ ~Truthy(params.content_query)

\* the emails (strings) of the attendees of a document
EmailsOf(doc) ==
    {doc.meeting_metadata.attendees[i].email.s :
        i \in {j \in DOMAIN doc.meeting_metadata.attendees :
                   doc.meeting_metadata.attendees[j].email.t = "string"}}

\* the candidates a finished search counts in total_matches
Counted(s) == {s.scoredDocs[i].docId : i \in DOMAIN s.scoredDocs}

\* C15: a search whose only filter is attendee_email = s counts a document that has
\* an attendee email when lowercase(s) is a substring of one of its lowercased
\* emails, and leaves it out when it is a substring of none.
C15_AttendeeSubstringDecides ==
    (search.pc = "done" /\ OnlyAttendee(search.params)) =>
        \A snap \in searchSeen : \A d \in DOMAIN snap.documentsById :
            EmailsOf(snap.documentsById[d]) # {}
            => ((\E email \in EmailsOf(snap.documentsById[d]) :
                     Includes(ToLowerCase(email),
                              ToLowerCase(search.params.attendee_email.s)))
                <=> d \in Counted(search))

\* the names (strings) of the folders of a metadata record
FolderNamesOf(metadata) ==
    LET folders == Prop(metadata, "folders")
    IN  IF folders.t # "array" THEN {}
        ELSE {Prop(folders.a[i], "name").s :
                 i \in {j \in DOMAIN folders.a : Prop(folders.a[j], "name").t = "string"}}

\* document d satisfies the attendee filter: one of its attendee emails contains
\* the lowercased pattern
SatisfiesAttendee(d, params) ==
    \E email \in EmailsOf(documentsById[d]) :
        Includes(ToLowerCase(email), ToLowerCase(params.attendee_email.s))

\* document d satisfies the date filter: it has a date, not before the start the
\* filter resolves to and not after the end it resolves to
SatisfiesDate(d, params) ==
    LET range == parseDateRange(params.start_date, params.end_date, clockNow, zone)
        instant == DateTime(JsOr(Prop(metadataById[d], "meeting_date"),
                                 Prop(metadataById[d], "created_at")))
    IN  /\ HasUsableDate(metadataById[d])
        /\ range.start.t = "date" => instant >= range.start.at
        /\ range.end.t = "date" => instant <= range.end.at

\* document d satisfies the workspace filter: its workspace is the one asked for
SatisfiesWorkspace(d, params) ==
    Prop(metadataById[d], "workspace_id") = params.workspace_id

\* document d satisfies the folder filter: one of its folder names contains the
\* lowercased pattern
SatisfiesFolder(d, params) ==
    \E name \in FolderNamesOf(metadataById[d]) :
        Includes(ToLowerCase(name), ToLowerCase(params.folder_name.s))

DateSupplied(params) == Truthy(params.start_date) \/ Truthy(params.end_date)

\* document d satisfies every filter the search supplies
SatisfiesAll(d, params) ==
    /\ Truthy(params.attendee_email) => SatisfiesAttendee(d, params)
    /\ DateSupplied(params) => SatisfiesDate(d, params)
    /\ Truthy(params.workspace_id) => SatisfiesWorkspace(d, params)
    /\ Truthy(params.folder_name) => SatisfiesFolder(d, params)

\* document d satisfies one of the filters the search supplies
SatisfiesSome(d, params) ==
    \/ Truthy(params.attendee_email) /\ SatisfiesAttendee(d, params)
    \/ DateSupplied(params) /\ SatisfiesDate(d, params)
    \/ Truthy(params.workspace_id) /\ SatisfiesWorkspace(d, params)
    \/ Truthy(params.folder_name) /\ SatisfiesFolder(d, params)

\* C16: the filters combine with AND. Every match of a finished search satisfies
\* every supplied attendee, date, workspace and folder filter, and without a
\* content query total_matches is the number of loaded documents that satisfy all
\* the supplied filters.
C16_FiltersCombineWithAnd ==
    search.pc = "done" =>
        /\ \A i \in DOMAIN search.matches :
               SatisfiesAll(search.matches[i].document_id, search.params)
        /\ ~Truthy(search.params.content_query)
           => search.total_matches
                  = Cardinality({d \in DOMAIN documentsById :
                                     SatisfiesAll(d, search.params)})

\* a finished search with a workspace and a date filter and no content query
\* returned a match, while another document passed one of the two filters only
C16_Witness ==
    /\ search.pc = "done"
    /\ Truthy(search.params.workspace_id) /\ DateSupplied(search.params)
    /\ ~Truthy(search.params.content_query)
    /\ Len(search.matches) > 0
    /\ \E d \in DOMAIN documentsById :
           SatisfiesSome(d, search.params) /\ ~SatisfiesAll(d, search.params)

\* the limit a search runs with
LimitOf(params) == IF params.limit.t = "number" THEN params.limit.n ELSE DefaultLimit

\* the whole score of document d under a content query
FullScore(d, contentQuery) ==
    ScoreBeforeTranscript(documentsById[d], metadataById[d], contentQuery,
                          d \in getDocumentsByTitle(tokenIndex, contentQuery.s), clockNow)
    + TranscriptScore(getTranscript(transcriptFiles[d]), contentQuery)

\* the documents that pass the filters and are not left out by the content query
Survivors(params) ==
    {d \in DOMAIN documentsById :
        /\ SatisfiesAll(d, params)
        /\ Truthy(params.content_query) => FullScore(d, params.content_query) # 0}

\* the most entries a limit allows: no entry can be kept under a limit below one
AtMost(limit) == IF limit > 0 THEN limit ELSE 0

\* C17: matches has at most limit entries (10 when no limit is given), and
\* total_matches is the number of candidates that passed the filters and the
\* content exclusion before truncation: the same under every limit, and never
\* smaller than the number of matches.
C17_TruncationAndTotal ==
    search.pc = "done" =>
        /\ Len(search.matches) <= AtMost(LimitOf(search.params))
        /\ search.total_matches = Cardinality(Survivors(search.params))
        /\ \A l \in Limits :
               SearchOn([search.params EXCEPT !.limit = l], Snapshot).total_matches
                   = search.total_matches
        /\ search.total_matches >= Len(search.matches)

\* the same statement for the limits that are not negative
C17_ForLimitsFromZero ==
    (search.pc = "done" /\ LimitOf(search.params) >= 0) => C17_TruncationAndTotal

\* the relevance score of document d under a search, from its own data
ScoreOf(d, params) ==
    IF Truthy(params.content_query) THEN FullScore(d, params.content_query)
    ELSE ScoreBeforeTranscript(documentsById[d], metadataById[d], params.content_query,
                               FALSE, clockNow)

\* the documents a finished search returned
Kept(s) == {s.matches[i].document_id : i \in DOMAIN s.matches}

\* C18: the matches are ordered by relevance_score, highest first, and no document
\* that truncation left out has a score strictly greater than a kept document's.
C18_RankedThenTruncated ==
    search.pc = "done" =>
        /\ \A i, j \in DOMAIN search.matches :
               i < j => search.matches[i].relevance_score
                            >= search.matches[j].relevance_score
        /\ \A i \in DOMAIN search.matches :
               search.matches[i].relevance_score
                   = ScoreOf(search.matches[i].document_id, search.params)
        /\ \A d \in Survivors(search.params) \ Kept(search) :
               \A i \in DOMAIN search.matches :
                   ScoreOf(d, search.params) <= search.matches[i].relevance_score

\* a finished search kept a document that was not the first candidate and left
\* out a document with a strictly lower score
C18_Witness ==
    /\ search.pc = "done"
    /\ Len(search.matches) > 0
    /\ search.matches[1].document_id # search.candidateIds[1]
    /\ \E d \in Survivors(search.params) \ Kept(search) :
           ScoreOf(d, search.params) < search.matches[1].relevance_score

\* the instant a document is ranked by: its meeting date, else its creation date
InstantOf(d) ==
    DateTime(JsOr(Prop(metadataById[d], "meeting_date"),
                  Prop(metadataById[d], "created_at")))

\* the documents a finished search scored
Scored(s) == {s.scoredDocs[i].docId : i \in DOMAIN s.scoredDocs}

\* the score a finished search gave document d
ScoreIn(s, d) ==
    s.scoredDocs[CHOOSE i \in DOMAIN s.scoredDocs : s.scoredDocs[i].docId = d].score

\* the points document d has from its folders and from having attendees
FolderAndAttendeePoints(d) ==
    FoldersLength(Prop(metadataById[d], "folders")) * (UnitsPerPoint \div 2)
    + (IF Len(documentsById[d].meeting_metadata.attendees) > 0 THEN UnitsPerPoint ELSE 0)

\* two documents that are alike in all that is scored but their instants
DifferOnlyInInstant(d, e) ==
    /\ d # e
    /\ HasUsableDate(metadataById[d]) /\ HasUsableDate(metadataById[e])
    /\ FolderAndAttendeePoints(d) = FolderAndAttendeePoints(e)

\* C19: of two documents that differ only in their instants, scored by one search
\* without a content query, the one with the later instant scores at least as
\* much as the other.
C19_LaterMeetingScoresNoLess ==
    (search.pc = "done" /\ ~Truthy(search.params.content_query)) =>
        \A d, e \in Scored(search) :
            (DifferOnlyInInstant(d, e) /\ InstantOf(d) >= InstantOf(e))
            => ScoreIn(search, d) >= ScoreIn(search, e)

\* a finished search scored two such documents, the later one strictly higher
C19_Witness ==
    /\ search.pc = "done" /\ ~Truthy(search.params.content_query)
    /\ \E d, e \in Scored(search) :
           /\ DifferOnlyInInstant(d, e) /\ InstantOf(d) > InstantOf(e)
           /\ ScoreIn(search, d) > ScoreIn(search, e)

\* the recency component of the score a finished search gave document d
RecencyComponent(s, d) == ScoreIn(s, d) - FolderAndAttendeePoints(d)

\* C20: the recency component of the relevance score lies between 0 and 5 points
\* for every document, also for one whose instant is later than the query's time.
C20_RecencyWithinFivePoints ==
    (search.pc = "done" /\ ~Truthy(search.params.content_query)) =>
        \A d \in Scored(search) :
            /\ RecencyComponent(search, d) >= 0
            /\ RecencyComponent(search, d) <= RecencyPoints * UnitsPerPoint

\* the expressions of this model that parseRelativeDate supports
Supported(expr) ==
    \/ expr.t = "isostring"
    \/ expr.t = "string"
       /\ Trim(ToLowerCase(expr.s)) \in {WordToday, WordYesterday, WordLastWeek}

\* the search has a date filter and no other filter, and no content query
OnlyDates(params) ==
    /\ DateSupplied(params)
    /\ ~Truthy(params.attendee_email)
    /\ ~Truthy(params.workspace_id)
    /\ ~Truthy(params.folder_name)
    /\ ~Truthy(params.content_query)

\* the documents within the bounds that the supported sides of a range give
WithinSupportedBounds(params) ==
    {d \in DOMAIN documentsById :
        /\ HasUsableDate(metadataById[d])
        /\ Supported(params.start_date)
           => InstantOf(d) >= parseRelativeDate(params.start_date, clockNow, zone).at
        /\ Supported(params.end_date)
           => InstantOf(d) <= endOfDay(parseRelativeDate(params.end_date, clockNow,
                                                         zone).at, zone)}

\* C21: the start and the end of a date range are resolved independently. A side
\* with an unsupported expression becomes an open bound, the other side is still
\* resolved to its instant, and the search goes on with the remaining bound
\* instead of failing.
C21_DateSidesResolvedIndependently ==
    (search.pc # "idle" /\ OnlyDates(search.params)) =>
        LET range == parseDateRange(search.params.start_date, search.params.end_date,
                                    clockNow, zone)
        IN  /\ search.pc # "error"
            /\ (range.start.t = "date") <=> Supported(search.params.start_date)
            /\ (range.end.t = "date") <=> Supported(search.params.end_date)
            /\ Range(search.candidateIds) = WithinSupportedBounds(search.params)

\* a search whose start is unsupported and whose end is supported finished, the
\* end bound having left a dated document out and kept another
C21_Witness ==
    /\ search.pc = "done" /\ OnlyDates(search.params)
    /\ Truthy(search.params.start_date) /\ ~Supported(search.params.start_date)
    /\ Supported(search.params.end_date)
    /\ search.candidateIds # <<>>
    /\ \E d \in DOMAIN documentsById :
           HasUsableDate(metadataById[d]) /\ d \notin Range(search.candidateIds)

\* C22: a direct lookup of a document or of metadata with an id that is not loaded
\* gives the not-found value without throwing, and get_meeting_details answers
\* such an id with a structured error result, not with an exception.
C22_UnknownIdIsNotFound ==
    phase = "ready" =>
        /\ \A docId \in (DocIds \cup {D4}) \ DOMAIN documentsById :
               /\ getDocument(documentsById, docId) = Undefined
               /\ getMetadata(metadataById, docId) = Undefined
        /\ (details.pc = "done" /\ details.document_id \notin DOMAIN documentsById)
           => details.response = MeetingNotFound(details.document_id)
        /\ (details.pc = "done" /\ details.document_id \in DOMAIN documentsById)
           => ~details.response.isError

\* get_meeting_details has answered for an id that the sync directory lists and
\* that was not loaded, while other documents were
C22_Witness ==
    /\ phase = "ready"
    /\ details.pc = "done"
    /\ details.document_id \in Range(syncDir.entries) \ DOMAIN documentsById
    /\ DOMAIN documentsById # {}
    /\ details.response.isError

\* the search has given its answer
Answered(s) == s.pc = "done"

\* the answer the search gives when it runs alone on the cache as it is
AnswerAlone(s) == SearchResponse(SearchOn(s.params, Snapshot))

\* C23: a search never changes shared state. The document map, the metadata map
\* and the five indexes, with the sets the workspace lookup returns, are after
\* any step of a search what they were before it, so searches interleaved with
\* each other answer what they answer when run one after another.
C23_SearchesOnlyRead ==
    /\ [][phase = "ready" => UNCHANGED cacheVars]_vars
    /\ [](Answered(search) => SearchResponse(search) = AnswerAlone(search))
    /\ [](Answered(search2) => SearchResponse(search2) = AnswerAlone(search2))

\* two searches of the same workspace have both answered, one by attendee and one
\* by content, with different matches
C23_Witness ==
    /\ Answered(search) /\ Answered(search2)
    /\ Truthy(search.params.workspace_id) /\ Truthy(search2.params.workspace_id)
    /\ Truthy(search2.params.attendee_email) /\ ~Truthy(search.params.attendee_email)
    /\ Truthy(search.params.content_query)
    /\ Len(search.matches) > Len(search2.matches)
    /\ Len(search2.matches) > 0

\* the orders the documents of a sequence can be loaded in
Orderings(order) ==
    {p \in [DOMAIN order -> Range(order)] : \A i, j \in DOMAIN order : i # j => p[i] # p[j]}

\* the loaded documents of this state, in a given order
LoadedIn(order) ==
    [documentsById |-> documentsById, metadataById |-> metadataById, order |-> order]

\* the indexes of this state
BuiltIndexes ==
    [attendeeIndex |-> attendeeIndex, dateIndex |-> dateIndex,
     workspaceIndex |-> workspaceIndex, folderIndex |-> folderIndex,
     tokenIndex |-> tokenIndex, thrown |-> FALSE]

\* C24: building the indexes a second time over the unchanged documents, or over
\* the same documents loaded in another order, gives for every index the same keys
\* and the same set of document ids per key as the first build; a build that
\* fails in one order fails in every order.
C24_BuildIsIdempotentAndOrderFree ==
    /\ phase = "ready" =>
           /\ buildIndexes(BuiltIndexes, LoadedIn(docOrder)) = BuiltIndexes
           /\ \A order \in Orderings(docOrder) :
                  buildIndexes(NoIndexes, LoadedIn(order)) = BuiltIndexes
    /\ (phase = "failed" /\ syncDir.ok) =>
           \A order \in Orderings(docOrder) :
               buildIndexes(NoIndexes, LoadedIn(order)).thrown

\* the indexes were built over three documents, two of them under one key
C24_Witness ==
    /\ phase = "ready"
    /\ Len(docOrder) = 3
    /\ \E k \in DOMAIN workspaceIndex : Cardinality(workspaceIndex[k]) > 1
    /\ \E k \in DOMAIN attendeeIndex : attendeeIndex[k] # {}

\* refreshAccessToken has just reported success for an exchange that rotated the
\* refresh token
RotationReported ==
    /\ tokenMgr.pc = "returned"
    /\ tokenMgr.result = RefreshSucceeded
    /\ tokenMgr.answer.refresh_token # NoToken

\* C25: whenever a token refresh is reported as successful, config.json holds the
\* access token, the expiry and the rotated refresh token of that exchange, so a
\* later loadConfig gives the new refresh token and never the consumed one.
C25_SuccessMeansTokensSaved ==
    RotationReported =>
        /\ tokenMgr.file.k = "json"
        /\ tokenMgr.file.access_token = tokenMgr.answer.access_token
        /\ tokenMgr.file.token_expiry = clockNow + ExpiresInHours
        /\ tokenMgr.file.refresh_token = tokenMgr.answer.refresh_token
        /\ loadConfig(NewTokenManager, tokenMgr.file).m.refreshToken # tokenMgr.sent

\* the run of the sync is over: main returned or was left by an exception
SyncOver == sync.pc \in {"complete", "fatal"}

\* the documents of the list whose processing met no error
ProcessedWithoutError ==
    {i \in DOMAIN sync.documents : sync.documents[i] \in {"ok", "noTranscript"}}

\* C26: a failure while processing one document (creating its folder, writing its
\* files, fetching its transcript, converting it) does not stop the sync: every
\* later document of the list is still processed, and the final count is the
\* number of documents processed without error.
C26_OneFailureDoesNotStopSync ==
    SyncOver =>
        /\ sync.i > Len(sync.documents)
        /\ sync.syncedCount = Cardinality(ProcessedWithoutError)

\* the same statement for the lists in which no folder fails to be created
C26_WhenFoldersCanBeCreated ==
    (SyncOver /\ \A i \in DOMAIN sync.documents : sync.documents[i] # "mkdirThrows")
        => C26_OneFailureDoesNotStopSync

\* the call of getTokensAutomatically is over: it returned tokens or it threw
ExtractionOver == extraction.pc \in {"returned", "thrown"}

\* C27: automatic token extraction restores the running state of the app. When
\* Granola was not running at the start, it is launched and is closed again by
\* the time the call completes, whether the extraction succeeded or threw; when
\* it was running, it is never closed.
C27_AppStateRestored ==
    ExtractionOver => extraction.appRunning = extraction.ranAtStart

\* the ids some lookup by attendee, workspace or folder can return
IndexedIds ==
    UNION ({attendeeIndex[k] : k \in DOMAIN attendeeIndex}
           \cup {workspaceIndex[k] : k \in DOMAIN workspaceIndex}
           \cup {folderIndex[k] : k \in DOMAIN folderIndex})

\* C28: after initialize completes, the metadata map and the document map have the
\* same key set and no key maps to null, so that a date-range lookup does not
\* throw and every id a lookup returns resolves through getDocument and
\* getMetadata.
C28_MapsShareKeysWithoutNull ==
    phase = "ready" =>
        /\ DOMAIN metadataById = DOMAIN documentsById
        /\ \A d \in DOMAIN metadataById : metadataById[d] # JNull
        /\ ~DateRangeThrows(metadataById)
        /\ \A d \in IndexedIds \cup DOMAIN metadataById :
               /\ getDocument(documentsById, d) # Undefined
               /\ getMetadata(metadataById, d) # Undefined

\* the lowercased emails under which the rebuild loops index a document: those of
\* its attendees that have a non-empty email
LoweredEmailsOf(doc) == {ToLowerCase(email) : email \in EmailsOf(doc) \ {<<>>}}

\* the attendee index is the inverse of the attendee lists of the loaded documents
\* and uniqueAttendees counts the distinct lowercased emails
AttendeeIndexIsInverse ==
    LET emails == UNION {LoweredEmailsOf(documentsById[d]) : d \in DOMAIN documentsById}
    IN  /\ DOMAIN attendeeIndex = emails
        /\ \A e \in emails :
               attendeeIndex[e] = {d \in DOMAIN documentsById :
                                       e \in LoweredEmailsOf(documentsById[d])}
        /\ \A e \in DOMAIN attendeeIndex : attendeeIndex[e] # {}
        /\ Stats(documentsById, attendeeIndex).uniqueAttendees = Cardinality(emails)

\* C29: whenever no refresh is in progress, after initialize and after any number
\* of refreshes, the attendee index is exactly the inverse of the documents'
\* attendee lists, has no key with an empty set, and uniqueAttendees is the number
\* of distinct lowercased attendee emails.
C29_AttendeeIndexIsInverseAtRest ==
    (phase = "ready" /\ RefreshAtRest) => AttendeeIndexIsInverse

\* the same while no refresh has ended in a throw
C29_UnlessARefreshThrew ==
    (phase = "ready" /\ RefreshAtRest
     /\ \A p \in DOMAIN refresh :
            refresh[p].pc = "done" => ~refresh[p].response.isError)
    => AttendeeIndexIsInverse

====
